---- MODULE Spec2Model ----
(***************************************************************************)
(* Bitburner utility scripts (deploy, remove, serverinfo) as a state       *)
(* machine.  The host (the game) owns the network: the adjacency lists     *)
(* ns.scan returns and the attributes of every server.  A script is one    *)
(* sequential run: the invocation (run <script> <args>), main's argument   *)
(* parsing, the breadth-first traversal (one action per loop iteration)    *)
(* and the per-server work.  Every host call a script makes is appended    *)
(* to calls, in order.                                                     *)
(***************************************************************************)
EXTENDS Integers, Sequences, FiniteSets, TLC

VARIABLES
    adj,        \* host: adj[n] is the list ns.scan(n) returns
    script,     \* which script was invoked ("none" before the invocation)
    args,       \* ns.args of the invocation
    pc,         \* position of the script
    targetHop,  \* deploy/remove main: Number(ns.args[0]) (a JS number)
    hops,       \* serverinfo main: the parsed, filtered hop list
    excludePrivate, \* deploy/remove main: the private-server toggle
    target,     \* serverinfo main: targetServer (a string)
    visited,    \* traversal: the visited Set
    queue,      \* traversal: the FIFO queue of records
    result,     \* traversal: the result array
    servers,    \* main: the list of servers to process
    idx,        \* main: position of the for-loop over servers
    nodePath,   \* serverinfo main: what getPathToServer returned
    calls,      \* every host call issued so far, in order
    root,       \* host: root[n], whether ns.hasRootAccess(n)
    portsReq,   \* host: ns.getServerNumPortsRequired(n)
    openers,    \* host: the port-opener programs present on "home"
    maxRam,     \* host: ns.getServerMaxRam(n), in GB
    scriptRam,  \* host: ns.getScriptRam(s, n) of a payload s, in GB
    files,      \* host: files[n] is the list ns.ls(n) returns
    procs,      \* host: procs[n] is the list ns.ps(n) returns
    scripts,    \* deploy/remove main: scriptsToDeploy / scriptsToRemove
    hackTarget, \* deploy main: the argument forwarded to the payloads
    fileList,   \* remove main: the files of the server being processed
    fidx,       \* remove main: position of the for-loop over fileList
    fn          \* a thread-sizing policy applied to drawn inputs

vars == <<adj, script, args, pc, targetHop, hops, excludePrivate, target,
          visited, queue, result, servers, idx, nodePath, calls,
          root, portsReq, openers, maxRam, scriptRam, files, procs,
          scripts, hackTarget, fileList, fidx, fn>>

\* The host's server attributes, files and processes.
host == <<root, portsReq, openers, maxRam, scriptRam, files, procs>>

\* What main of deploy and of remove keep besides the traversal.
work == <<scripts, hackTarget, fileList, fidx>>

----------------------------------------------------------------------------
(* The network.                                                            *)

Home == "home"

\* Server names of the modelled network.
Nodes == {"home", "n00dles", "foodnstuff", "pserv-0"}

\* Total number of adjacency entries (over all servers) of a modelled network.
MaxEdges == 3

\* Largest hop count passed as a number on the command line.
MaxHopArg == 3

RECURSIVE SumLen(_, _)
SumLen(f, S) ==
    IF S = {} THEN 0
    ELSE LET n == CHOOSE x \in S : TRUE IN Len(f[n]) + SumLen(f, S \ {n})

TotalEntries == SumLen(adj, Nodes)

\* Shortest-path hop distance from "home", computed by level sets (not by the
\* scripts' queue): Ring(k) is the set of servers at distance exactly k.
Range(s) == {s[i] : i \in 1..Len(s)}

InSeq(x, s) == \E i \in 1..Len(s) : s[i] = x

RECURSIVE Within(_)
Within(k) ==
    IF k = 0 THEN {Home}
    ELSE LET W == Within(k - 1)
         IN  W \cup UNION {Range(adj[n]) : n \in W}

Ring(k) == IF k = 0 THEN {Home} ELSE Within(k) \ Within(k - 1)

Reachable == Within(Cardinality(Nodes))

Dist(n) == CHOOSE k \in 0..Cardinality(Nodes) : n \in Ring(k)

\* The payload scripts the modelled invocations name.
Payloads == {"early-hack-template.js", "hack.js"}

\* No policy applied.
NoFn == [policy |-> "none"]

----------------------------------------------------------------------------
(* JavaScript values.  ns.args holds strings, numbers and booleans.  A     *)
(* string is a sequence of symbols: "0".."9" are the digits, "-" the sign, *)
(* "," the comma, " " a blank; every other symbol ("a", "x", "true",       *)
(* "hack.js") is a run of characters that are none of these.  A JS number  *)
(* is an integer or NaN.                                                   *)

JsNum(n)  == [t |-> "number", n |-> n]
JsStr(s)  == [t |-> "string", s |-> s]
JsBool(b) == [t |-> "boolean", b |-> b]

Num(n) == [nan |-> FALSE, v |-> n]
NaN    == [nan |-> TRUE, v |-> 0]

Digits == {"0", "1", "2", "3", "4", "5", "6", "7", "8", "9"}

DigitVal(c) ==
    CASE c = "0" -> 0 [] c = "1" -> 1 [] c = "2" -> 2 [] c = "3" -> 3
      [] c = "4" -> 4 [] c = "5" -> 5 [] c = "6" -> 6 [] c = "7" -> 7
      [] c = "8" -> 8 [] c = "9" -> 9

DigitSym(d) ==
    CASE d = 0 -> "0" [] d = 1 -> "1" [] d = 2 -> "2" [] d = 3 -> "3"
      [] d = 4 -> "4" [] d = 5 -> "5" [] d = 6 -> "6" [] d = 7 -> "7"
      [] d = 8 -> "8" [] d = 9 -> "9"

\* String.prototype.trim on blanks.
RECURSIVE TrimLeft(_)
TrimLeft(s) == IF s # <<>> /\ Head(s) = " " THEN TrimLeft(Tail(s)) ELSE s

RECURSIVE TrimRight(_)
TrimRight(s) ==
    IF s # <<>> /\ s[Len(s)] = " " THEN TrimRight(SubSeq(s, 1, Len(s) - 1)) ELSE s

Trim(s) == TrimRight(TrimLeft(s))

AllDigits(s) == s # <<>> /\ \A i \in 1..Len(s) : s[i] \in Digits

RECURSIVE DigitsValue(_)
DigitsValue(s) ==
    IF s = <<>> THEN 0
    ELSE 10 * DigitsValue(SubSeq(s, 1, Len(s) - 1)) + DigitVal(s[Len(s)])

\* Number(<string>): blanks are trimmed, the empty string is 0, an optionally
\* signed run of digits is its value, anything else is NaN.
StringToNumber(s) ==
    LET t == Trim(s)
    IN  IF t = <<>> THEN Num(0)
        ELSE IF AllDigits(t) THEN Num(DigitsValue(t))
        ELSE IF Head(t) = "-" /\ AllDigits(Tail(t)) THEN Num(0 - DigitsValue(Tail(t)))
        ELSE NaN

\* Number(x) for an argument value x.
ToNumber(x) ==
    CASE x.t = "number"  -> Num(x.n)
      [] x.t = "boolean" -> Num(IF x.b THEN 1 ELSE 0)
      [] x.t = "string"  -> StringToNumber(x.s)

RECURSIVE NatToSyms(_)
NatToSyms(n) ==
    IF n < 10 THEN <<DigitSym(n)>> ELSE Append(NatToSyms(n \div 10), DigitSym(n % 10))

\* String(x) for an argument value x.
JsString(x) ==
    CASE x.t = "number"  -> IF x.n < 0 THEN <<"-">> \o NatToSyms(0 - x.n) ELSE NatToSyms(x.n)
      [] x.t = "boolean" -> IF x.b THEN <<"true">> ELSE <<"false">>
      [] x.t = "string"  -> x.s

\* s.split(","): the pieces between the commas (one piece for no comma).
RECURSIVE SplitComma(_)
SplitComma(s) ==
    IF \A i \in 1..Len(s) : s[i] # "," THEN <<s>>
    ELSE LET k == CHOOSE i \in 1..Len(s) :
                      s[i] = "," /\ \A j \in 1..(i - 1) : s[j] # ","
         IN  <<SubSeq(s, 1, k - 1)>> \o SplitComma(SubSeq(s, k + 1, Len(s)))

\* isNaN(x), x <= 0, x > 0 on JS numbers: every comparison with NaN is false.
IsNaN(x) == x.nan
LeqZero(x) == ~x.nan /\ x.v <= 0
GtZero(x) == ~x.nan /\ x.v > 0

----------------------------------------------------------------------------
(* Host calls, as logged in calls.                                         *)

Tprint(m) == [op |-> "tprint", msg |-> m]
Scan(n)   == [op |-> "scan", server |-> n]

ErrInvalidHop  == "ERROR: Invalid hop count. Please enter a positive number."
ErrInvalidHops == "ERROR: Invalid hops. Please enter a comma-separated list of positive numbers."

Ops(c) == {c[i].op : i \in 1..Len(c)}

----------------------------------------------------------------------------
(* Server-name tests.  A name is one symbol here, so startsWith is a       *)
(* table over the modelled names.                                          *)

StartsWithPservDash(n) == n \in {"pserv-0", "pserv-1"}
StartsWithPserv(n)     == n \in {"pserv-0", "pserv-1"}

----------------------------------------------------------------------------
(* The traversals.                                                         *)

\* `level <= maxHop` and `level < maxHop` for a JS number maxHop.
LevelLeq(level, maxHop) == ~maxHop.nan /\ level <= maxHop.v
LevelLtOrEqual(level, maxHop) == ~maxHop.nan /\ level <= maxHop.v

LevelLt(level, maxHop) == ~maxHop.nan /\ level < maxHop.v

\* The for-loop over ns.scan(server): every neighbour not yet visited is
\* marked visited and pushed with level + 1.
RECURSIVE ExpandPushFront(_, _, _, _)
ExpandPushFront(nbrs, level, vis, q) ==
    IF nbrs = <<>> THEN [visited |-> vis, queue |-> q]
    ELSE IF Head(nbrs) \notin vis
         THEN ExpandPushFront(Tail(nbrs), level, vis \cup {Head(nbrs)},
                              <<[server |-> Head(nbrs), level |-> level + 1]>> \o q)
         ELSE ExpandPushFront(Tail(nbrs), level, vis, q)

ExpandRevisits(nbrs, level, vis, q) ==
    [visited |-> vis \cup Range(nbrs),
     queue |-> q \o [i \in 1..Len(nbrs) |-> [server |-> nbrs[i], level |-> level + 1]]]

RECURSIVE Expand(_, _, _, _)
Expand(nbrs, level, vis, q) ==
    IF nbrs = <<>> THEN [visited |-> vis, queue |-> q]
    ELSE IF Head(nbrs) \notin vis
         THEN Expand(Tail(nbrs), level, vis \cup {Head(nbrs)},
                     Append(q, [server |-> Head(nbrs), level |-> level + 1]))
         ELSE Expand(Tail(nbrs), level, vis, q)

\* `level > 0 && level <= maxHop`
InHopRangeNoLowerBound(level, maxHop) == LevelLeq(level, maxHop)

InHopRange(level, maxHop) == level > 0 /\ LevelLeq(level, maxHop)

BfsInitHomeUnvisited ==
    /\ visited' = {}
    /\ queue' = <<[server |-> Home, level |-> 0]>>
    /\ result' = <<>>

\* The state a traversal starts from: visited = {"home"}, queue = [home at 0].
BfsInit ==
    /\ visited' = {Home}
    /\ queue' = <<[server |-> Home, level |-> 0]>>
    /\ result' = <<>>

\* One iteration of the while loop of getServersUpToLevel, as deploy and the
\* table-policy deploy both have it.
UpToLevelStep(s) ==
    /\ script = s /\ pc = "bfs" /\ queue # <<>>
    /\ LET e == Head(queue)
           emit == InHopRange(e.level, targetHop)
           grow == LevelLt(e.level, targetHop)
           x == Expand(adj[e.server], e.level, visited, Tail(queue))
       IN  /\ result' = IF emit THEN Append(result, e.server) ELSE result
           /\ visited' = IF grow THEN x.visited ELSE visited
           /\ queue' = IF grow THEN x.queue ELSE Tail(queue)
           /\ calls' = IF grow THEN Append(calls, Scan(e.server)) ELSE calls
    /\ UNCHANGED <<host, fn, work, adj, script, args, pc, targetHop, hops, excludePrivate, target, servers, idx, nodePath>>

DeployBfsStep == UpToLevelStep("deploy")

\* getServersUpToLevel(maxHop) as a function of the network: the loop run to
\* its end from the initial queue.
RECURSIVE UpToLevelLoop(_, _, _, _)
UpToLevelLoop(q, vis, res, maxHop) ==
    IF q = <<>> THEN res
    ELSE LET e == Head(q)
             emit == InHopRange(e.level, maxHop)
             grow == LevelLt(e.level, maxHop)
             x == Expand(adj[e.server], e.level, vis, Tail(q))
         IN  UpToLevelLoop(IF grow THEN x.queue ELSE Tail(q),
                           IF grow THEN x.visited ELSE vis,
                           IF emit THEN Append(res, e.server) ELSE res,
                           maxHop)

getServersUpToLevel(maxHop) ==
    UpToLevelLoop(<<[server |-> Home, level |-> 0]>>, {Home}, <<>>, maxHop)

\* getAllServers of the first deploy (src/File/deploy, lines 52-61): the
\* recursive walk.  The Set `visited` is the sequence of its members in
\* insertion order, which is what Array.from returns.
getAllServersNoDescent(h, vis) ==
    (IF InSeq(h, vis) THEN vis ELSE Append(vis, h))
    \o SelectSeq(adj[h], LAMBDA n : ~InSeq(n, vis) /\ n # h)

RECURSIVE getAllServers(_, _)
RECURSIVE WalkNeighbors(_, _)
getAllServers(h, vis) ==
    WalkNeighbors(adj[h], IF InSeq(h, vis) THEN vis ELSE Append(vis, h))

\* The for-loop of lines 55-59 over the neighbours still to be looked at.
WalkNeighbors(nbrs, vis) ==
    IF nbrs = <<>> THEN vis
    ELSE IF InSeq(Head(nbrs), vis) THEN WalkNeighbors(Tail(nbrs), vis)
    ELSE WalkNeighbors(Tail(nbrs), getAllServers(Head(nbrs), vis))

\* Line 50 of deploy returns here when the queue is empty; lines 53-70 then
\* split the scanned servers into the two reported subsets and the candidates.
manualExcludedServers == <<>>

InList(x, l) == \E i \in 1..Len(l) : l[i] = x

\* Line 53: the scanned servers the manual list names.
manuallyExcluded(scanned, manual) ==
    SelectSeq(scanned, LAMBDA n : InList(n, manual))

\* Lines 55-57: the scanned servers named "pserv-...", when the toggle is on.
privateExcluded(scanned, toggle) ==
    IF toggle THEN SelectSeq(scanned, StartsWithPservDash) ELSE <<>>

\* Lines 60-64: the scanned servers neither rule removes.
candidateServersKeepPrivate(scanned, manual, toggle) ==
    SelectSeq(scanned, LAMBDA n : ~InList(n, manual))

candidateServers(scanned, manual, toggle) ==
    SelectSeq(scanned, LAMBDA n : ~InList(n, manual) /\ ~(toggle /\ StartsWithPservDash(n)))

DeployBfsReturn ==
    /\ script = "deploy" /\ pc = "bfs" /\ queue = <<>>
    /\ servers' = candidateServers(result, manualExcludedServers, excludePrivate)
    /\ calls' = calls \o
         <<Tprint("===="),
           [op |-> "tprint", msg |-> "Manually excluded servers",
            list |-> manuallyExcluded(result, manualExcludedServers)],
           [op |-> "tprint", msg |-> "Private servers excluded",
            list |-> privateExcluded(result, excludePrivate)],
           Tprint("====")>>
    /\ pc' = "canNuke"
    /\ UNCHANGED <<host, fn, work, adj, script, args, targetHop, hops, excludePrivate, target,
                   visited, queue, result, idx, nodePath>>

\* Lines 19-20 of deploy and 27-28 of remove.
ParseHop(a) == IF Len(a) > 0 THEN ToNumber(a[1]) ELSE Num(1)

InvalidHop(h) == IsNaN(h) \/ LeqZero(h)

\* Line 34 of deploy: ns.args[2] === true || ns.args[2] === "true".
DeployToggle(a) ==
    IF Len(a) > 2 THEN a[3] = JsBool(TRUE) \/ a[3] = JsStr(<<"true">>) ELSE FALSE

\* Lines 16 and 27-29 of deploy, 24 and 35-37 of remove: the script names
\* of the second argument, trimmed, the empty ones dropped.
defaultScripts == << <<"hack.js">> >>

ParseScripts(a) ==
    IF Len(a) > 1
    THEN LET pieces == SplitComma(JsString(a[2]))
             trimmed == [i \in 1..Len(pieces) |-> Trim(pieces[i])]
         IN  SelectSeq(trimmed, LAMBDA t : Len(t) > 0)
    ELSE defaultScripts

\* Line 38 of deploy: ns.args[3], "" without a fourth argument.
ParseHackTargetThirdArg(a) == IF Len(a) > 3 THEN a[3] ELSE JsStr(<<>>)

ParseHackTarget(a) == IF Len(a) > 3 THEN a[4] ELSE JsStr(<<>>)

\* main of deploy up to the call of getServersUpToLevel (lines 13-50).
DeployMain ==
    /\ script = "deploy" /\ pc = "main"
    /\ targetHop' = ParseHop(args)
    /\ IF InvalidHop(targetHop')
       THEN /\ calls' = Append(calls, Tprint(ErrInvalidHop))
            /\ pc' = "done"
            /\ UNCHANGED <<host, fn, excludePrivate, visited, queue, result, nodePath,
                           scripts, hackTarget>>
       ELSE /\ excludePrivate' = DeployToggle(args)
            /\ scripts' = ParseScripts(args)
            /\ hackTarget' = ParseHackTarget(args)
            /\ calls' = calls \o <<Tprint("Deploying scripts"), Tprint("Maximum hop level"),
                                   Tprint("Exclude private servers"), Tprint("Hack target")>>
            /\ BfsInit
            /\ pc' = "bfs"
    /\ UNCHANGED <<host, fn, fileList, fidx, adj, script, args, hops, target, servers, idx,
                   nodePath>>

----------------------------------------------------------------------------
(* remove.js (lines 1-140).                                                *)

\* String.prototype.toLowerCase on the symbols used.
LowerSym(c) == IF c \in {"TRUE", "True"} THEN "true" ELSE c
ToLowerCase(s) == [i \in 1..Len(s) |-> LowerSym(s[i])]

\* Lines 41-43: String(ns.args[2]).toLowerCase() === "true".
RemoveToggle(a) ==
    IF Len(a) > 2 THEN ToLowerCase(JsString(a[3])) = <<"true">> ELSE FALSE

\* main of remove up to the call of getServersUpToLevel (lines 21-57).
RemoveMain ==
    /\ script = "remove" /\ pc = "main"
    /\ targetHop' = ParseHop(args)
    /\ IF InvalidHop(targetHop')
       THEN /\ calls' = Append(calls, Tprint(ErrInvalidHop))
            /\ pc' = "done"
            /\ UNCHANGED <<host, fn, excludePrivate, visited, queue, result, nodePath,
                           scripts>>
       ELSE /\ excludePrivate' = RemoveToggle(args)
            /\ scripts' = ParseScripts(args)
            /\ calls' = calls \o <<Tprint("Removing scripts"), Tprint("Maximum hop level"),
                                   Tprint("Exclude private servers")>>
            /\ BfsInit
            /\ pc' = "bfs"
    /\ UNCHANGED <<host, fn, hackTarget, fileList, fidx, adj, script, args, hops, target,
                   servers, idx, nodePath>>

\* The `continue` of line 127: a private server in the hop range is neither
\* returned nor expanded.
RemoveSkips(e) ==
    InHopRange(e.level, targetHop) /\ excludePrivate /\ StartsWithPserv(e.server)

\* One iteration of the while loop of remove's getServersUpToLevel (116-140).
RemoveBfsStep ==
    /\ script = "remove" /\ pc = "bfs" /\ queue # <<>>
    /\ LET e == Head(queue)
           skip == RemoveSkips(e)
           emit == InHopRange(e.level, targetHop) /\ ~skip
           grow == ~skip /\ LevelLt(e.level, targetHop)
           x == Expand(adj[e.server], e.level, visited, Tail(queue))
       IN  /\ result' = IF emit THEN Append(result, e.server) ELSE result
           /\ visited' = IF grow THEN x.visited ELSE visited
           /\ queue' = IF grow THEN x.queue ELSE Tail(queue)
           /\ calls' = IF grow THEN Append(calls, Scan(e.server)) ELSE calls
    /\ UNCHANGED <<host, fn, work, adj, script, args, pc, targetHop, hops, excludePrivate, target, servers, idx, nodePath>>

\* Line 57 returns; lines 60-67 drop the manually excluded servers.
RemoveBfsReturn ==
    /\ script = "remove" /\ pc = "bfs" /\ queue = <<>>
    /\ LET IsManual(n) == InList(n, manualExcludedServers)
           NotManual(n) == ~InList(n, manualExcludedServers)
       IN  /\ servers' = SelectSeq(result, NotManual)
           /\ calls' = calls \o
                <<Tprint("===="),
                  [op |-> "tprint", msg |-> "Manually excluded servers",
                   list |-> SelectSeq(result, IsManual)],
                  Tprint("====")>>
    /\ pc' = "removeLoop"
    /\ idx' = 1
    /\ UNCHANGED <<host, fn, work, adj, script, args, targetHop, hops, excludePrivate, target,
                   visited, queue, result, nodePath>>

----------------------------------------------------------------------------
(* serverinfo.js.                                                          *)

\* Lines 113-119: pserv-0 .. pserv-24.
generatePrivateServerList ==
    <<"pserv-0", "pserv-1", "pserv-2", "pserv-3", "pserv-4", "pserv-5", "pserv-6",
      "pserv-7", "pserv-8", "pserv-9", "pserv-10", "pserv-11", "pserv-12", "pserv-13",
      "pserv-14", "pserv-15", "pserv-16", "pserv-17", "pserv-18", "pserv-19",
      "pserv-20", "pserv-21", "pserv-22", "pserv-23", "pserv-24">>

\* Lines 35-38 (excludePrivateServers is the constant true).
excludedServers == manualExcludedServers \o generatePrivateServerList

\* `n => !isNaN(n) && n > 0` of line 24.
KeepHopAlsoZero(x) == ~IsNaN(x) /\ ~(x.v < 0)

KeepHop(x) == ~IsNaN(x) /\ GtZero(x)

\* Lines 23-25: String(ns.args[0]).split(",").map(Number).filter(...), the
\* default [1] without arguments.  The result is a list of integers.
ParseHops(a) ==
    IF Len(a) > 0
    THEN LET pieces == SplitComma(JsString(a[1]))
             nums == [i \in 1..Len(pieces) |-> StringToNumber(pieces[i])]
             kept == SelectSeq(nums, KeepHop)
         IN  [i \in 1..Len(kept) |-> kept[i].v]
    ELSE <<1>>

\* Line 32: String(ns.args[1]).trim(), "" without a second argument.
ParseTarget(a) == IF Len(a) > 1 THEN Trim(JsString(a[2])) ELSE <<>>

\* A server name is one symbol: the name a target string spells.
NameOf(t) == t[1]

\* Math.max(...targetHops)
RECURSIVE MaxOf(_)
MaxOf(l) ==
    IF Len(l) = 1 THEN l[1]
    ELSE LET m == MaxOf(Tail(l)) IN IF l[1] > m THEN l[1] ELSE m

\* main of serverinfo up to the traversal it starts (lines 15-61).
InfoMain ==
    /\ script = "serverinfo" /\ pc = "main"
    /\ hops' = ParseHops(args)
    /\ IF Len(hops') = 0
       THEN /\ calls' = Append(calls, Tprint(ErrInvalidHops))
            /\ pc' = "done"
            /\ UNCHANGED <<host, fn, target, visited, queue, result, servers>>
       ELSE /\ target' = ParseTarget(args)
            /\ IF target' # <<>>
               THEN /\ servers' = <<NameOf(target')>>
                    /\ calls' = calls \o
                         <<Tprint("Scanning specific server"), Tprint("Excluding private servers"),
                           [op |-> "tprint", msg |-> "Excluded servers", list |-> excludedServers],
                           Tprint("====")>>
                    /\ visited' = {Home}
                    /\ queue' = <<[server |-> Home, path |-> <<Home>>]>>
                    /\ result' = <<>>
                    /\ pc' = "path"
               ELSE /\ calls' = Append(calls, Tprint("Scanning servers at hops"))
                    /\ BfsInit
                    /\ servers' = <<>>
                    /\ pc' = "bfs"
    /\ UNCHANGED <<host, fn, work, adj, script, args, targetHop, excludePrivate, idx, nodePath>>

\* `targetHops.includes(level)` and `Math.max(...targetHops) > level`.
HopRequestedUpToMax(level, targetHops) == level > 0 /\ level <= MaxOf(targetHops)

HopRequested(level, targetHops) == InList(level, targetHops)

BelowMaxHop(level, targetHops) == MaxOf(targetHops) > level

\* One iteration of the while loop of getServersAtHops (lines 85-106).
InfoBfsStep ==
    /\ script = "serverinfo" /\ pc = "bfs" /\ queue # <<>>
    /\ LET e == Head(queue)
           emit == HopRequested(e.level, hops)
           grow == BelowMaxHop(e.level, hops)
           x == Expand(adj[e.server], e.level, visited, Tail(queue))
       IN  /\ result' = IF emit THEN Append(result, e.server) ELSE result
           /\ visited' = IF grow THEN x.visited ELSE visited
           /\ queue' = IF grow THEN x.queue ELSE Tail(queue)
           /\ calls' = IF grow THEN Append(calls, Scan(e.server)) ELSE calls
    /\ UNCHANGED <<host, fn, work, adj, script, args, pc, targetHop, hops, excludePrivate, target,
                   servers, idx, nodePath>>

\* getServersAtHops returns (line 47); lines 51-57 drop the excluded servers.
InfoBfsReturn ==
    /\ script = "serverinfo" /\ pc = "bfs" /\ queue = <<>>
    /\ LET NotExcluded(n) == ~InList(n, excludedServers)
       IN  servers' = SelectSeq(result, NotExcluded)
    /\ calls' = calls \o
         <<Tprint("Excluding private servers"),
           [op |-> "tprint", msg |-> "Excluded servers", list |-> excludedServers],
           Tprint("====")>>
    /\ idx' = 1
    /\ pc' = "info"
    /\ UNCHANGED <<host, fn, work, adj, script, args, targetHop, hops, excludePrivate, target,
                   visited, queue, result, nodePath>>

\* The for-loop of getPathToServer: as Expand, each new entry carrying the
\* path to it.
RECURSIVE ExpandPathDropsPrefix(_, _, _, _)
ExpandPathDropsPrefix(nbrs, path, vis, q) ==
    IF nbrs = <<>> THEN [visited |-> vis, queue |-> q]
    ELSE IF Head(nbrs) \notin vis
         THEN ExpandPathDropsPrefix(Tail(nbrs), path, vis \cup {Head(nbrs)},
                         Append(q, [server |-> Head(nbrs), path |-> <<Home, Head(nbrs)>>]))
         ELSE ExpandPathDropsPrefix(Tail(nbrs), path, vis, q)

RECURSIVE ExpandPath(_, _, _, _)
ExpandPath(nbrs, path, vis, q) ==
    IF nbrs = <<>> THEN [visited |-> vis, queue |-> q]
    ELSE IF Head(nbrs) \notin vis
         THEN ExpandPath(Tail(nbrs), path, vis \cup {Head(nbrs)},
                         Append(q, [server |-> Head(nbrs), path |-> Append(path, Head(nbrs))]))
         ELSE ExpandPath(Tail(nbrs), path, vis, q)

\* `server === target` for a server name and the target string.
IsTargetNotHome(server, t) == server # Home /\ <<server>> = t

IsTarget(server, t) == <<server>> = t

\* One iteration of the while loop of getPathToServer (lines 128-146); the
\* return of line 136 goes on with lines 62-67 of main.
InfoPathStep ==
    /\ script = "serverinfo" /\ pc = "path" /\ queue # <<>>
    /\ LET e == Head(queue)
           x == ExpandPath(adj[e.server], e.path, visited, Tail(queue))
       IN  IF IsTarget(e.server, target)
           THEN /\ nodePath' = e.path
                /\ calls' = calls \o <<[op |-> "tprint", msg |-> "Node Path", list |-> e.path],
                                       Tprint("====")>>
                /\ idx' = 1
                /\ pc' = "info"
                /\ UNCHANGED <<host, fn, visited, queue>>
           ELSE /\ visited' = x.visited
                /\ queue' = x.queue
                /\ calls' = Append(calls, Scan(e.server))
                /\ UNCHANGED <<host, fn, nodePath, idx, pc>>
    /\ UNCHANGED <<host, fn, work, adj, script, args, targetHop, hops, excludePrivate, target,
                   result, servers>>

\* The search fails and main returns at once, without the loop of lines 71-75.
InfoPathNotFoundReturns ==
    /\ script = "serverinfo" /\ pc = "path" /\ queue = <<>>
    /\ nodePath' = <<>>
    /\ calls' = calls \o <<Tprint("Node Path not found"), Tprint("====")>>
    /\ pc' = "done"
    /\ UNCHANGED <<host, fn, work, adj, script, args, targetHop, hops, excludePrivate, target,
                   visited, queue, result, servers, idx>>

\* The return of line 145 (queue empty), then lines 62-67 of main.
InfoPathNotFound ==
    /\ script = "serverinfo" /\ pc = "path" /\ queue = <<>>
    /\ nodePath' = <<>>
    /\ calls' = calls \o <<Tprint("Node Path not found"), Tprint("====")>>
    /\ idx' = 1
    /\ pc' = "info"
    /\ UNCHANGED <<host, fn, work, adj, script, args, targetHop, hops, excludePrivate, target,
                   visited, queue, result, servers>>

\* The host reads of printServerInfo (lines 154-171), in order.
printServerInfo(server) ==
    <<[op |-> "getServer", server |-> server], Tprint("Server"), Tprint("Root Access"),
      Tprint("Required Hacking Level"), Tprint("Security"), Tprint("Money"), Tprint("RAM"),
      Tprint("Ports Required"), Tprint("CPU Cores"),
      [op |-> "getHackTime", server |-> server], Tprint("Hack Time"),
      [op |-> "getGrowTime", server |-> server], Tprint("Grow Time"),
      [op |-> "getWeakenTime", server |-> server], Tprint("Weaken Time"),
      Tprint("Growth Rate"),
      [op |-> "hackAnalyzeChance", server |-> server], Tprint("Hack Success Chance")>>

\* One iteration of the for-loop of lines 71-75.
InfoPrintStep ==
    /\ script = "serverinfo" /\ pc = "info" /\ idx <= Len(servers)
    /\ calls' = calls \o printServerInfo(servers[idx])
                      \o <<Tprint("----"), [op |-> "sleep", ms |-> 50]>>
    /\ idx' = idx + 1
    /\ UNCHANGED <<host, fn, work, adj, script, args, pc, targetHop, hops, excludePrivate, target,
                   visited, queue, result, servers, nodePath>>

\* main returns after the loop.
InfoReturn ==
    /\ script = "serverinfo" /\ pc = "info" /\ idx > Len(servers)
    /\ pc' = "done"
    /\ UNCHANGED <<host, fn, work, adj, script, args, targetHop, hops, excludePrivate, target,
                   visited, queue, result, servers, idx, nodePath, calls>>

----------------------------------------------------------------------------
(* The thread-sizing policies.  RAM amounts are whole GB; Math.floor(a / b) *)
(* is a \div b.                                                             *)

\* calculateThreads of deploy.js (lines 200-216), given what getServerMaxRam
\* and getScriptRam return.
calculateThreadsTableBoundary(ram, sram) ==
    IF ram <= 16 THEN [threads |-> 1, warn |-> FALSE]
    ELSE IF ram = 32 THEN [threads |-> 12, warn |-> FALSE]
    ELSE IF sram = 0 THEN [threads |-> 1, warn |-> TRUE]
    ELSE [threads |-> ram \div sram, warn |-> FALSE]

calculateThreadsTable(ram, sram) ==
    IF ram < 16 THEN [threads |-> 1, warn |-> FALSE]
    ELSE IF ram = 16 THEN [threads |-> 6, warn |-> FALSE]
    ELSE IF ram = 32 THEN [threads |-> 12, warn |-> FALSE]
    ELSE IF sram = 0 THEN [threads |-> 1, warn |-> TRUE]
    ELSE [threads |-> ram \div sram, warn |-> FALSE]

\* calculateThreads of the current deploy (lines 225-238), given what
\* getServerMaxRam, getServerUsedRam and getScriptRam return.
calculateThreadsNoFloorToOne(ram, used, sram) ==
    IF sram = 0 THEN [threads |-> 1, warn |-> TRUE]
    ELSE [threads |-> (ram - used) \div sram, warn |-> FALSE]

calculateThreads(ram, used, sram) ==
    LET availableRam == ram - used
    IN  IF sram <= 0 THEN [threads |-> 1, warn |-> TRUE]
        ELSE LET threads == availableRam \div sram
             IN  [threads |-> IF threads > 0 THEN threads ELSE 1, warn |-> FALSE]

\* Largest capacity the policies are applied to.
MaxPolicyRam == 65

PolicyUsed == {0, 16, 30}

PolicyFootprint == {0 - 2, 0, 3, 8, 128}

PolicyInputs ==
    [policy : {"table", "available"}, maxRam : (0 - 2)..MaxPolicyRam, usedRam : PolicyUsed,
     scriptRam : PolicyFootprint, applied : {FALSE}, threads : {0}, warn : {FALSE},
     run : {FALSE}]

\* fn.run: whether gainRootAccess issues the run request with the count (the
\* table-policy deploy always does, deploy.js lines 154-156; the current
\* deploy when threads > 0, line 204).
ApplyTablePolicy ==
    /\ pc = "fn" /\ fn.policy = "table" /\ ~fn.applied
    /\ LET r == calculateThreadsTable(fn.maxRam, fn.scriptRam)
       IN  fn' = [fn EXCEPT !.applied = TRUE, !.threads = r.threads, !.warn = r.warn,
                            !.run = TRUE]
    /\ UNCHANGED <<host, work, adj, script, args, pc, targetHop, hops, excludePrivate, target,
                   visited, queue, result, servers, idx, nodePath, calls>>

ApplyAvailablePolicy ==
    /\ pc = "fn" /\ fn.policy = "available" /\ ~fn.applied
    /\ LET r == calculateThreads(fn.maxRam, fn.usedRam, fn.scriptRam)
       IN  fn' = [fn EXCEPT !.applied = TRUE, !.threads = r.threads, !.warn = r.warn,
                            !.run = r.threads > 0]
    /\ UNCHANGED <<host, work, adj, script, args, pc, targetHop, hops, excludePrivate, target,
                   visited, queue, result, servers, idx, nodePath, calls>>

----------------------------------------------------------------------------
(* The host's processes and files, as the scripts' calls see and change    *)
(* them.  A process is semantically its file name and its arguments:       *)
(* isRunning, kill and exec match both.                                    *)

TprintServer(m, server) == [op |-> "tprint", msg |-> m, server |-> server]
TprintScript(m, file, server) == [op |-> "tprint", msg |-> m, script |-> file, server |-> server]

\* ns.getScriptRam(file, server): 0 for a script the host does not know.
ScriptRamOf(file) == IF file \in Payloads THEN scriptRam[file] ELSE 0

\* ns.getServerUsedRam(server), given the processes P of the server.
RECURSIVE UsedRam(_)
UsedRam(P) ==
    IF P = <<>> THEN 0
    ELSE Head(P).threads * ScriptRamOf(Head(P).filename) + UsedRam(Tail(P))

\* ns.isRunning(file, server, ...a)
IsRunning(P, file, a) == \E i \in 1..Len(P) : P[i].filename = file /\ P[i].args = a

\* ns.kill(file, server, ...a): the process with this file and these arguments ends.
HostKill(P, file, a) == SelectSeq(P, LAMBDA q : ~(q.filename = file /\ q.args = a))

\* ns.exec(file, server, threads, ...a): the process starts when the file is on
\* the server, it is not already running with these arguments and its RAM fits.
HostExec(P, F, cap, file, threads, a) ==
    IF /\ InList(file, F)
       /\ ~IsRunning(P, file, a)
       /\ threads >= 1
       /\ threads * ScriptRamOf(file) <= cap - UsedRam(P)
    THEN Append(P, [filename |-> file, args |-> a, threads |-> threads])
    ELSE P

\* ns.scp(l, server): every script of l that "home" holds is on the server
\* afterwards.
RECURSIVE HostScp(_, _)
HostScp(F, l) ==
    IF l = <<>> THEN F
    ELSE LET file == NameOf(Head(l))
         IN  HostScp(IF ScriptRamOf(file) > 0 /\ ~InList(file, F) THEN Append(F, file) ELSE F,
                     Tail(l))

----------------------------------------------------------------------------
(* deploy.js, the table-policy deploy.                                     *)

OpenerPrograms == <<"BruteSSH.exe", "FTPCrack.exe", "relaySMTP.exe", "HTTPWorm.exe", "SQLInject.exe">>

\* The opener programs present on "home", in the order the code tests them.
PresentOpeners == SelectSeq(OpenerPrograms, LAMBDA f : f \in openers)

FileExistsCalls == [i \in 1..Len(OpenerPrograms) |-> [op |-> "fileExists", file |-> OpenerPrograms[i], server |-> Home]]

\* canNuke (lines 99-108): as many opener programs as ports required.
canNukeTable(server) == Len(PresentOpeners) >= portsReq[server]

canNukeCalls(server) ==
    FileExistsCalls \o <<[op |-> "getServerNumPortsRequired", server |-> server]>>

tableScripts == <<"early-hack-template.js">>

tableExcluded == <<"home">>

\* main up to the call of getServersUpToLevel (lines 4-15): targetHop is 3.
TableMain ==
    /\ script = "deployTable" /\ pc = "main"
    /\ targetHop' = Num(3)
    /\ BfsInit
    /\ pc' = "bfs"
    /\ UNCHANGED <<host, fn, work, adj, script, args, hops, excludePrivate, target, servers, idx,
                   nodePath, calls>>

TableBfsStep == UpToLevelStep("deployTable")

\* The calls of the loop of lines 21-27 over the servers l.
RECURSIVE TableSelectCalls(_)
TableSelectCalls(l) ==
    IF l = <<>> THEN <<>>
    ELSE canNukeCalls(Head(l))
         \o (IF canNukeTable(Head(l)) THEN <<>> ELSE <<Tprint("Skipping server")>>)
         \o TableSelectCalls(Tail(l))

\* getServersUpToLevel returns; lines 17-27 drop the excluded servers and
\* those canNuke rejects.
TableSelect ==
    /\ script = "deployTable" /\ pc = "bfs" /\ queue = <<>>
    /\ LET kept == SelectSeq(result, LAMBDA n : ~InList(n, tableExcluded))
       IN  /\ servers' = SelectSeq(kept, canNukeTable)
           /\ calls' = calls \o TableSelectCalls(kept)
    /\ pc' = "copy"
    /\ UNCHANGED <<host, fn, work, adj, script, args, targetHop, hops, excludePrivate, target,
                   visited, queue, result, idx, nodePath>>

\* Lines 30-47: the payload is copied to every valid server, then the valid
\* servers are split into those requiring no port and the others, processed in
\* that order by lines 50-57.
TableCopy ==
    /\ script = "deployTable" /\ pc = "copy"
    /\ calls' = calls
         \o [i \in 1..Len(servers) |-> [op |-> "scp", files |-> tableScripts, server |-> servers[i]]]
         \o [i \in 1..Len(servers) |-> [op |-> "getServerNumPortsRequired", server |-> servers[i]]]
         \o <<Tprint("Valid servers requiring no ports"), Tprint("Valid servers requiring ports")>>
    /\ servers' = SelectSeq(servers, LAMBDA n : portsReq[n] = 0)
                  \o SelectSeq(servers, LAMBDA n : portsReq[n] # 0)
    /\ files' = [n \in Nodes |->
                    IF InList(n, servers)
                    THEN HostScp(files[n], [i \in 1..Len(tableScripts) |-> <<tableScripts[i]>>])
                    ELSE files[n]]
    /\ idx' = 1
    /\ pc' = "gain"
    /\ UNCHANGED <<root, portsReq, openers, maxRam, scriptRam, procs, fn, work, adj, script,
                   args, targetHop, hops, excludePrivate, target, visited, queue, result,
                   nodePath>>

\* The calls of lines 122-141: every opener program present is applied.
OpenerOp(f) ==
    CASE f = "BruteSSH.exe" -> "brutessh" [] f = "FTPCrack.exe" -> "ftpcrack"
      [] f = "relaySMTP.exe" -> "relaysmtp" [] f = "HTTPWorm.exe" -> "httpworm"
      [] f = "SQLInject.exe" -> "sqlinject"

OpenerCallsNone(progs, server) ==
    [i \in 1..Len(progs) |-> [op |-> "fileExists", file |-> progs[i], server |-> Home]]

RECURSIVE OpenerCalls(_, _)
OpenerCalls(progs, server) ==
    IF progs = <<>> THEN <<>>
    ELSE <<[op |-> "fileExists", file |-> Head(progs), server |-> Home]>>
         \o (IF Head(progs) \in openers
             THEN <<[op |-> OpenerOp(Head(progs)), server |-> server]>> ELSE <<>>)
         \o OpenerCalls(Tail(progs), server)

\* The calls of the loop of lines 153-157 over the scripts l: the thread
\* count, then exec with it, whatever it is.
RECURSIVE TableRunCalls(_, _)
TableRunCalls(l, server) ==
    IF l = <<>> THEN <<>>
    ELSE LET r == calculateThreadsTable(maxRam[server], scriptRam[Head(l)])
         IN  <<[op |-> "getServerMaxRam", server |-> server]>>
             \o (IF maxRam[server] > 16 /\ maxRam[server] # 32
                 THEN <<[op |-> "getScriptRam", script |-> Head(l), server |-> server]>>
                 ELSE <<>>)
             \o (IF r.warn THEN <<Tprint("Warning: 0 RAM usage")>> ELSE <<>>)
             \o <<Tprint("Running"),
                  [op |-> "exec", script |-> Head(l), server |-> server,
                   threads |-> r.threads, args |-> <<>>]>>
             \o TableRunCalls(Tail(l), server)

\* The processes the host runs after the run requests of that loop.
RECURSIVE TableRunProcs(_, _, _)
TableRunProcs(l, server, P) ==
    IF l = <<>> THEN P
    ELSE LET r == calculateThreadsTable(maxRam[server], scriptRam[Head(l)])
         IN  TableRunProcs(Tail(l), server,
                           HostExec(P, files[server], maxRam[server], Head(l), r.threads, <<>>))

\* gainRootAccess (lines 118-161) for the next server of lines 50-57.
TableGainRootAccess ==
    /\ script = "deployTable" /\ pc = "gain" /\ idx <= Len(servers)
    /\ LET server == servers[idx]
           hadRoot == root[server]
           portsOpened == Len(PresentOpeners)
           enough == portsOpened >= portsReq[server]
           unlock == IF hadRoot THEN <<>>
                     ELSE OpenerCalls(OpenerPrograms, server)
                          \o <<[op |-> "getServerNumPortsRequired", server |-> server]>>
                          \o (IF enough THEN <<[op |-> "nuke", server |-> server]>>
                              ELSE <<Tprint("ERROR: Not enough ports opened to nuke")>>)
       IN  /\ root' = IF ~hadRoot /\ enough THEN [root EXCEPT ![server] = TRUE] ELSE root
           /\ calls' = calls
                \o <<[op |-> "hasRootAccess", server |-> server, ret |-> hadRoot]>>
                \o unlock
                \o (IF ~hadRoot /\ ~enough THEN <<>>
                    ELSE <<[op |-> "hasRootAccess", server |-> server, ret |-> root'[server]]>>
                         \o (IF root'[server] THEN TableRunCalls(tableScripts, server)
                             ELSE <<Tprint("Failed to gain root access")>>))
           /\ procs' = IF root'[server]
                       THEN [procs EXCEPT ![server] = TableRunProcs(tableScripts, server, @)]
                       ELSE procs
    /\ idx' = idx + 1
    /\ UNCHANGED <<fn, work, files, adj, script, args, pc, targetHop, hops, excludePrivate, target,
                   visited, queue, result, servers, nodePath,
                   portsReq, openers, maxRam, scriptRam>>

\* main returns after the loops.
TableReturn ==
    /\ script = "deployTable" /\ pc = "gain" /\ idx > Len(servers)
    /\ pc' = "done"
    /\ UNCHANGED <<host, fn, work, adj, script, args, targetHop, hops, excludePrivate, target,
                   visited, queue, result, servers, idx, nodePath, calls>>

----------------------------------------------------------------------------
(* The current deploy after the traversal (lines 73-112, 153-214).         *)

\* canNuke (lines 153-166): a "pserv-" name bypasses the opener count.
canNukeAlways(server) == TRUE

canNuke(server) ==
    StartsWithPservDash(server) \/ Len(PresentOpeners) >= portsReq[server]

canNukeDeployCalls(server) ==
    IF StartsWithPservDash(server) THEN <<>> ELSE canNukeCalls(server)

\* The calls of the loop of lines 75-82 over the candidates l.
RECURSIVE DeploySelectCalls(_)
DeploySelectCalls(l) ==
    IF l = <<>> THEN <<>>
    ELSE canNukeDeployCalls(Head(l))
         \o (IF canNuke(Head(l)) THEN <<>>
             ELSE <<TprintServer("Skipping server: not enough port openers", Head(l))>>)
         \o DeploySelectCalls(Tail(l))

\* Lines 73-82: the candidates canNuke accepts, a rejected one being passed
\* over (continue).
RECURSIVE validServersUntilShortfall(_)
validServersUntilShortfall(l) ==
    IF l = <<>> \/ ~canNuke(Head(l)) THEN <<>>
    ELSE <<Head(l)>> \o validServersUntilShortfall(Tail(l))

validServers(l) == SelectSeq(l, canNuke)

\* Lines 73-101: the candidates canNuke accepts are the valid servers; the
\* skipped ones and the valid ones are reported.
DeploySelect ==
    /\ script = "deploy" /\ pc = "canNuke"
    /\ LET valid == validServers(servers)
           skipped == SelectSeq(servers, LAMBDA n : ~canNuke(n))
       IN  /\ servers' = valid
           /\ calls' = calls
                \o DeploySelectCalls(servers)
                \o <<Tprint("===="),
                     [op |-> "tprint", msg |-> "Servers skipped due to insufficient port openers",
                      list |-> skipped],
                     Tprint("====")>>
                \o [i \in 1..Len(valid) |-> [op |-> "getServerNumPortsRequired", server |-> valid[i]]]
                \o <<Tprint("Valid servers requiring no ports"),
                     Tprint("Valid servers requiring ports")>>
    /\ pc' = "copy"
    /\ UNCHANGED <<host, fn, work, adj, script, args, targetHop, hops, excludePrivate, target,
                   visited, queue, result, idx, nodePath>>

\* Lines 104-106: the payloads are copied to every valid server.
DeployCopy ==
    /\ script = "deploy" /\ pc = "copy"
    /\ calls' = calls
         \o [i \in 1..Len(servers) |-> [op |-> "scp", files |-> scripts, server |-> servers[i]]]
    /\ files' = [n \in Nodes |-> IF InList(n, servers) THEN HostScp(files[n], scripts)
                                 ELSE files[n]]
    /\ idx' = 1
    /\ pc' = "gain"
    /\ UNCHANGED <<root, portsReq, openers, maxRam, scriptRam, procs, fn, work, adj, script,
                   args, targetHop, hops, excludePrivate, target, visited, queue, result,
                   servers, nodePath>>

\* The loop of lines 196-210 over the scripts l on a server with capacity cap,
\* files F and processes P: the calls issued and the processes left.
RECURSIVE DeployRun(_, _, _, _, _, _)
DeployRun(l, server, cap, F, P, forwarded) ==
    IF l = <<>> THEN [calls |-> <<>>, procs |-> P]
    ELSE LET file == NameOf(Head(l))
             running == IsRunning(P, file, <<>>)
             P1 == IF running THEN HostKill(P, file, <<>>) ELSE P
             r == calculateThreads(cap, UsedRam(P1), ScriptRamOf(file))
             P2 == IF r.threads > 0 THEN HostExec(P1, F, cap, file, r.threads, forwarded) ELSE P1
             rest == DeployRun(Tail(l), server, cap, F, P2, forwarded)
         IN  [calls |->
                <<[op |-> "isRunning", script |-> file, server |-> server, args |-> <<>>]>>
                \o (IF running
                    THEN <<[op |-> "kill", script |-> file, server |-> server, args |-> <<>>],
                           TprintScript("Overwriting script", file, server)>>
                    ELSE <<>>)
                \o <<[op |-> "getServerMaxRam", server |-> server],
                     [op |-> "getServerUsedRam", server |-> server],
                     [op |-> "getScriptRam", script |-> file, server |-> server]>>
                \o (IF r.warn THEN <<TprintScript("Warning: 0 RAM usage", file, server)>> ELSE <<>>)
                \o (IF r.threads > 0
                    THEN <<TprintScript("Running", file, server),
                           [op |-> "exec", script |-> file, server |-> server,
                            threads |-> r.threads, args |-> forwarded]>>
                    ELSE <<TprintScript("Skipping: insufficient RAM", file, server)>>)
                \o rest.calls,
              procs |-> rest.procs]

\* gainRootAccess without its two tests of ns.hasRootAccess' result: the loop
\* over the scripts runs for every server.
DeployGainRootAccessUnchecked ==
    /\ script = "deploy" /\ pc = "gain" /\ idx <= Len(servers)
    /\ LET server == servers[idx]
           run == DeployRun(scripts, server, maxRam[server], files[server], procs[server],
                            <<hackTarget>>)
       IN  /\ calls' = calls
                \o <<[op |-> "hasRootAccess", server |-> server, ret |-> root[server]]>>
                \o run.calls
           /\ procs' = [procs EXCEPT ![server] = run.procs]
    /\ idx' = idx + 1
    /\ UNCHANGED <<root, portsReq, openers, maxRam, scriptRam, files, fn, work, adj, script,
                   args, pc, targetHop, hops, excludePrivate, target, visited, queue, result,
                   servers, nodePath>>

\* gainRootAccess (lines 179-214) for the next server of lines 109-111.  Every
\* run request forwards hackTarget (line 206).
DeployGainRootAccess ==
    /\ script = "deploy" /\ pc = "gain" /\ idx <= Len(servers)
    /\ LET server == servers[idx]
           hadRoot == root[server]
           enough == Len(PresentOpeners) >= portsReq[server]
           unlock == IF hadRoot THEN <<>>
                     ELSE OpenerCalls(OpenerPrograms, server)
                          \o <<[op |-> "getServerNumPortsRequired", server |-> server]>>
                          \o (IF enough THEN <<[op |-> "nuke", server |-> server]>>
                              ELSE <<TprintServer("ERROR: Not enough ports opened to nuke", server)>>)
           run == DeployRun(scripts, server, maxRam[server], files[server], procs[server],
                            <<hackTarget>>)
       IN  /\ root' = IF ~hadRoot /\ enough THEN [root EXCEPT ![server] = TRUE] ELSE root
           /\ calls' = calls
                \o <<[op |-> "hasRootAccess", server |-> server, ret |-> hadRoot]>>
                \o unlock
                \o (IF ~hadRoot /\ ~enough THEN <<>>
                    ELSE <<[op |-> "hasRootAccess", server |-> server, ret |-> root'[server]]>>
                         \o (IF root'[server] THEN run.calls
                             ELSE <<TprintServer("Failed to gain root access", server)>>))
           /\ procs' = IF root'[server] THEN [procs EXCEPT ![server] = run.procs] ELSE procs
    /\ idx' = idx + 1
    /\ UNCHANGED <<portsReq, openers, maxRam, scriptRam, files, fn, work, adj, script, args,
                   pc, targetHop, hops, excludePrivate, target, visited, queue, result,
                   servers, nodePath>>

\* main returns after the loop of lines 109-111.
DeployReturn ==
    /\ script = "deploy" /\ pc = "gain" /\ idx > Len(servers)
    /\ pc' = "done"
    /\ UNCHANGED <<host, fn, work, adj, script, args, targetHop, hops, excludePrivate, target,
                   visited, queue, result, servers, idx, nodePath, calls>>

----------------------------------------------------------------------------
(* The current remove after the traversal (remove.js lines 70-105).        *)

\* Line 77: scriptsToRemove.includes(file).
ScriptListedAny(file, l) == TRUE

ScriptListed(file, l) == InList(<<file>>, l)

\* Lines 70-73: the next candidate is announced and its files are listed.
RemoveLs ==
    /\ script = "remove" /\ pc = "removeLoop" /\ idx <= Len(servers)
    /\ LET server == servers[idx]
       IN  /\ fileList' = files[server]
           /\ calls' = calls \o <<TprintServer("Scanning for target scripts", server),
                                   [op |-> "ls", server |-> server, list |-> files[server]]>>
    /\ fidx' = 1
    /\ pc' = "removeFiles"
    /\ UNCHANGED <<host, fn, scripts, hackTarget, adj, script, args, targetHop, hops,
                   excludePrivate, target, visited, queue, result, servers, idx, nodePath>>

\* That loop left after its first kill request.
KillCallsFirstOnly(P, file, server) ==
    LET m == SelectSeq(P, LAMBDA q : q.filename = file)
    IN  IF m = <<>> THEN <<>>
        ELSE <<TprintScript("Killing", file, server),
               [op |-> "kill", script |-> file, server |-> server, args |-> Head(m).args]>>

\* The calls of the loop of lines 83-91 over the processes P: each process of
\* the file is killed by its own arguments.
RECURSIVE KillCallsNoArgs(_, _, _)
KillCallsNoArgs(P, file, server) ==
    IF P = <<>> THEN <<>>
    ELSE (IF Head(P).filename = file
          THEN <<TprintScript("Killing", file, server),
                 [op |-> "kill", script |-> file, server |-> server, args |-> <<>>]>>
          ELSE <<>>)
         \o KillCallsNoArgs(Tail(P), file, server)

RECURSIVE KillCalls(_, _, _)
KillCalls(P, file, server) ==
    IF P = <<>> THEN <<>>
    ELSE (IF Head(P).filename = file
          THEN <<TprintScript("Killing", file, server),
                 [op |-> "kill", script |-> file, server |-> server, args |-> Head(P).args]>>
          ELSE <<>>)
         \o KillCalls(Tail(P), file, server)

\* The processes left after the kill requests k.
RECURSIVE AfterKills(_, _)
AfterKills(P, k) ==
    IF k = <<>> THEN P
    ELSE AfterKills(IF Head(k).op = "kill" THEN HostKill(P, Head(k).script, Head(k).args) ELSE P,
                    Tail(k))

\* Lines 76-102 for the next file of the listing: a file of the target list
\* has its processes killed, then is deleted; the host reports whether the
\* delete succeeded.
RemoveFile ==
    /\ script = "remove" /\ pc = "removeFiles" /\ fidx <= Len(fileList)
    /\ LET server == servers[idx]
           file == fileList[fidx]
           processes == procs[server]
           kills == KillCalls(processes, file, server)
       IN  IF ScriptListed(file, scripts)
           THEN \E ok \in BOOLEAN :
                  /\ procs' = [procs EXCEPT ![server] = AfterKills(processes, kills)]
                  /\ files' = IF ok
                              THEN [files EXCEPT ![server] = SelectSeq(@, LAMBDA f : f # file)]
                              ELSE files
                  /\ calls' = calls
                       \o <<TprintScript("Found", file, server),
                            [op |-> "ps", server |-> server, list |-> processes]>>
                       \o kills
                       \o (IF kills # <<>> THEN <<[op |-> "sleep", ms |-> 100]>> ELSE <<>>)
                       \o <<[op |-> "rm", script |-> file, server |-> server, ok |-> ok],
                            TprintScript(IF ok THEN "Removed" ELSE "Failed to remove",
                                         file, server)>>
           ELSE UNCHANGED <<procs, files, calls>>
    /\ fidx' = fidx + 1
    /\ UNCHANGED <<root, portsReq, openers, maxRam, scriptRam, fn, scripts, hackTarget,
                   fileList, adj, script, args, pc, targetHop, hops, excludePrivate, target,
                   visited, queue, result, servers, idx, nodePath>>

\* The loop over the files ends: the next candidate.
RemoveNextServer ==
    /\ script = "remove" /\ pc = "removeFiles" /\ fidx > Len(fileList)
    /\ idx' = idx + 1
    /\ pc' = "removeLoop"
    /\ UNCHANGED <<host, fn, work, adj, script, args, targetHop, hops, excludePrivate, target,
                   visited, queue, result, servers, nodePath, calls>>

\* main returns after the loop of lines 70-104.
RemoveReturn ==
    /\ script = "remove" /\ pc = "removeLoop" /\ idx > Len(servers)
    /\ pc' = "done"
    /\ UNCHANGED <<host, fn, work, adj, script, args, targetHop, hops, excludePrivate, target,
                   visited, queue, result, servers, idx, nodePath, calls>>

----------------------------------------------------------------------------
(* The invocations and the network they find.                              *)

\* First arguments tried: numbers, booleans and strings.
HopArgs ==
    {JsNum(n) : n \in (0 - 1)..MaxHopArg}
    \cup {JsBool(TRUE), JsBool(FALSE)}
    \cup {JsStr(s) : s \in {<<>>, <<" ">>, <<"0">>, <<"2">>, <<" ", "3", " ">>,
                            <<"-", "1">>, <<"-">>, <<"a">>, <<"2", "a">>, <<"1", "0">>}}

DeployArgs ==
    {<<>>} \cup {<<h>> : h \in HopArgs}

\* Third arguments tried for the private-server toggle.
ToggleArgs == {JsBool(TRUE), JsBool(FALSE), JsStr(<<"true">>), JsStr(<<"TRUE">>), JsStr(<<"no">>)}

RemoveArgs ==
    {<<>>} \cup {<<h>> : h \in HopArgs}
    \cup {<<JsNum(n), JsStr(<<"hack.js">>), tg>> : n \in 1..MaxHopArg, tg \in ToggleArgs}

\* The host adds one entry to a server's adjacency list (before any script runs).
SetupLink ==
    /\ pc = "setup" /\ TotalEntries < MaxEdges
    /\ \E n \in Nodes, m \in Nodes : adj' = [adj EXCEPT ![n] = Append(@, m)]
    /\ UNCHANGED <<host, fn, work, script, args, pc, targetHop, hops, excludePrivate, target,
                   visited, queue, result, servers, idx, nodePath, calls>>

\* run deploy.js <args>
DeployStart ==
    /\ pc = "setup"
    /\ \E a \in DeployArgs : args' = a
    /\ script' = "deploy"
    /\ pc' = "main"
    /\ UNCHANGED <<host, fn, work, adj, targetHop, hops, excludePrivate, target,
                   visited, queue, result, servers, idx, nodePath, calls>>

\* Hop lists tried by serverinfo (the first argument).
HopsArgs ==
    {JsNum(1), JsNum(2), JsNum(0), JsBool(TRUE)}
    \cup {JsStr(s) : s \in {<<"1", ",", "3">>, <<"2", ",", "3">>, <<"3">>, <<"0", ",", "2">>,
                            <<"x", ",", "3">>, <<"3", ",", "1", ",", "3">>, <<"x">>, <<>>,
                            <<"0", ",", "-", "1">>, <<",">>, <<" ", "2", ",">>}}

\* Targets tried by serverinfo (the second argument): the servers, a name no
\* scan produces, and blanks.
TargetArgs ==
    {JsStr(<<n>>) : n \in Nodes \cup {"ghost"}}
    \cup {JsStr(<<" ", "n00dles", " ">>), JsStr(<<" ">>), JsStr(<<>>)}

InfoArgs ==
    {<<>>} \cup {<<h>> : h \in HopsArgs}
    \cup {<<JsNum(1), t>> : t \in TargetArgs}
    \cup {<<JsStr(<<"x">>), JsStr(<<"n00dles">>)>>}

\* run serverinfo.js <args>
InfoStart ==
    /\ pc = "setup"
    /\ \E a \in InfoArgs : args' = a
    /\ script' = "serverinfo"
    /\ pc' = "main"
    /\ UNCHANGED <<host, fn, work, adj, targetHop, hops, excludePrivate, target,
                   visited, queue, result, servers, idx, nodePath, calls>>

\* Networks a deploying script is run on have at most this many entries.
MaxDeployEdges == 2

\* Attribute values the host may hold for a server.
PortsRequiredValues == {0, 2}
OpenerSets == {{"BruteSSH.exe"}, {"BruteSSH.exe", "FTPCrack.exe"}}
MaxRamValues == {8, 16, 32, 64}
ScriptRamValues == {0, 8, 128}

\* The attributes of the servers the network holds (those reachable from
\* "home"); a server outside it keeps the defaults.
DrawHost(Payload) ==
    LET R == Reachable \ {Home}
    IN  /\ \E r \in [R -> BOOLEAN] :
              root' = [n \in Nodes |-> IF n \in R THEN r[n] ELSE n = Home]
        /\ \E q \in [R -> PortsRequiredValues] :
              portsReq' = [n \in Nodes |-> IF n \in R THEN q[n] ELSE 0]
        /\ \E m \in [R -> MaxRamValues] :
              maxRam' = [n \in Nodes |-> IF n \in R THEN m[n] ELSE 8]
        /\ openers' \in OpenerSets
        /\ \E c \in ScriptRamValues :
              scriptRam' = [s \in Payloads |-> IF s \in Payload THEN c ELSE 0]
        /\ UNCHANGED <<files, procs>>

\* run deploy.js (the table-policy deploy takes no arguments)
TableStart ==
    /\ pc = "setup" /\ TotalEntries <= MaxDeployEdges
    /\ args' = <<>>
    /\ script' = "deployTable"
    /\ pc' = "main"
    /\ DrawHost({"early-hack-template.js"})
    /\ UNCHANGED <<fn, work, adj, targetHop, hops, excludePrivate, target,
                   visited, queue, result, servers, idx, nodePath, calls>>

\* Invocations of deploy with a script list, a toggle and a hack target.
DeployFullArgs ==
    {<<JsNum(2), JsStr(<<"hack.js">>)>>,
     <<JsNum(2), JsStr(<<"hack.js">>), JsBool(TRUE)>>,
     <<JsNum(2), JsStr(<<"hack.js">>), JsBool(FALSE), JsStr(<<"n00dles">>)>>,
     <<JsNum(1), JsStr(<<" ", "hack.js", " ", ",", "early-hack-template.js", ",">>),
       JsStr(<<"true">>), JsStr(<<"n00dles">>)>>}

\* Processes a privileged server may be running before the script starts:
\* hack.js without arguments, with a target, or with the empty string.
ProcChoices ==
    {<<>>,
     <<[filename |-> "hack.js", args |-> <<>>, threads |-> 1]>>,
     <<[filename |-> "hack.js", args |-> <<JsStr(<<"n00dles">>)>>, threads |-> 1]>>,
     <<[filename |-> "hack.js", args |-> <<JsStr(<<>>)>>, threads |-> 1]>>}

DeployRamValues == {8, 32}
PayloadRamValues == {4, 16}

\* The files a server holds for its processes.
FilesOf(P) == IF P = <<>> THEN <<>> ELSE <<Head(P).filename>>

\* The attributes, processes and files of the servers the network holds, for
\* a run of the current deploy: only a privileged server runs processes, and
\* they fit its RAM.
DrawDeployHost ==
    LET R == Reachable \ {Home}
    IN  /\ \E r \in [R -> BOOLEAN] :
              root' = [n \in Nodes |-> IF n \in R THEN r[n] ELSE n = Home]
        /\ \E q \in [R -> PortsRequiredValues] :
              portsReq' = [n \in Nodes |-> IF n \in R THEN q[n] ELSE 0]
        /\ \E m \in [R -> DeployRamValues] :
              maxRam' = [n \in Nodes |-> IF n \in R THEN m[n] ELSE 8]
        /\ openers' \in OpenerSets
        /\ \E c \in PayloadRamValues : scriptRam' = [s \in Payloads |-> c]
        /\ \E P \in [R -> ProcChoices] :
              procs' = [n \in Nodes |-> IF n \in R THEN P[n] ELSE <<>>]
        /\ \A n \in Nodes :
              /\ procs'[n] # <<>> => root'[n]
              /\ Head(procs'[n] \o <<[threads |-> 0]>>).threads * scriptRam'["hack.js"]
                    <= maxRam'[n]
        /\ files' = [n \in Nodes |-> FilesOf(procs'[n])]

\* run deploy.js <hops> <scripts> [<toggle> [<target>]]
DeployStartFull ==
    /\ pc = "setup" /\ TotalEntries <= MaxDeployEdges
    /\ \E a \in DeployFullArgs : args' = a
    /\ script' = "deploy"
    /\ pc' = "main"
    /\ DrawDeployHost
    /\ UNCHANGED <<fn, work, adj, targetHop, hops, excludePrivate, target,
                   visited, queue, result, servers, idx, nodePath, calls>>

\* run remove.js <args>
RemoveStart ==
    /\ pc = "setup"
    /\ \E a \in RemoveArgs : args' = a
    /\ script' = "remove"
    /\ pc' = "main"
    /\ UNCHANGED <<host, fn, work, adj, targetHop, hops, excludePrivate, target,
                   visited, queue, result, servers, idx, nodePath, calls>>

\* Invocations of remove with a script list and a toggle.
RemoveFullArgs ==
    {<<JsNum(2), JsStr(<<"hack.js">>)>>,
     <<JsNum(2), JsStr(<<"hack.js">>), JsStr(<<"TRUE">>)>>,
     <<JsNum(1), JsStr(<<"hack.js", ",", " ", "early-hack-template.js">>), JsBool(FALSE)>>}

\* What a server may hold before remove runs: nothing; the payload unexecuted;
\* another file and the payload running twice with different arguments; two
\* payloads, each running; the payload running after its file was deleted.
HoldChoices ==
    {[files |-> <<>>, procs |-> <<>>],
     [files |-> <<"hack.js">>, procs |-> <<>>],
     [files |-> <<"notes.txt", "hack.js">>,
      procs |-> <<[filename |-> "hack.js", args |-> <<JsStr(<<"n00dles">>)>>, threads |-> 1],
                  [filename |-> "hack.js", args |-> <<>>, threads |-> 1]>>],
     [files |-> <<"early-hack-template.js", "hack.js">>,
      procs |-> <<[filename |-> "early-hack-template.js", args |-> <<>>, threads |-> 1],
                  [filename |-> "hack.js", args |-> <<JsStr(<<"n00dles">>)>>, threads |-> 1]>>],
     [files |-> <<"notes.txt">>,
      procs |-> <<[filename |-> "hack.js", args |-> <<>>, threads |-> 1]>>]}

\* The files and processes of the servers the network holds, for a run of the
\* current remove: a server that runs processes is privileged.
DrawRemoveHost ==
    LET R == Reachable \ {Home}
    IN  /\ \E h \in [R -> HoldChoices] :
              /\ files' = [n \in Nodes |-> IF n \in R THEN h[n].files ELSE <<>>]
              /\ procs' = [n \in Nodes |-> IF n \in R THEN h[n].procs ELSE <<>>]
        /\ root' = [n \in Nodes |-> n = Home \/ procs'[n] # <<>>]
        /\ scriptRam' = [s \in Payloads |-> 4]
        /\ UNCHANGED <<portsReq, openers, maxRam>>

\* run remove.js <hops> <scripts> [<toggle>]
RemoveStartFull ==
    /\ pc = "setup" /\ TotalEntries <= MaxDeployEdges
    /\ \E a \in RemoveFullArgs : args' = a
    /\ script' = "remove"
    /\ pc' = "main"
    /\ DrawRemoveHost
    /\ UNCHANGED <<fn, work, adj, targetHop, hops, excludePrivate, target,
                   visited, queue, result, servers, idx, nodePath, calls>>

Init ==
    /\ adj = [n \in Nodes |-> <<>>]
    /\ script = "none"
    /\ args = <<>>
    /\ pc = "setup"
    /\ targetHop = Num(0)
    /\ hops = <<>>
    /\ excludePrivate = FALSE
    /\ target = <<>>
    /\ visited = {}
    /\ queue = <<>>
    /\ result = <<>>
    /\ servers = <<>>
    /\ idx = 1
    /\ nodePath = <<>>
    /\ calls = <<>>
    /\ root = [n \in Nodes |-> n = Home]
    /\ portsReq = [n \in Nodes |-> 0]
    /\ openers = {}
    /\ maxRam = [n \in Nodes |-> 8]
    /\ scriptRam = [s \in Payloads |-> 0]
    /\ files = [n \in Nodes |-> <<>>]
    /\ procs = [n \in Nodes |-> <<>>]
    /\ scripts = <<>>
    /\ hackTarget = JsStr(<<>>)
    /\ fileList = <<>>
    /\ fidx = 1
    /\ fn = NoFn

NextDeploy ==
    \/ SetupLink
    \/ DeployStart \/ DeployStartFull \/ DeployMain \/ DeployBfsStep \/ DeployBfsReturn
    \/ DeploySelect \/ DeployCopy \/ DeployGainRootAccess \/ DeployReturn

NextRemove ==
    \/ SetupLink
    \/ RemoveStart \/ RemoveStartFull \/ RemoveMain \/ RemoveBfsStep \/ RemoveBfsReturn
    \/ RemoveLs \/ RemoveFile \/ RemoveNextServer \/ RemoveReturn

\* The policies applied to drawn inputs.
InitThreads ==
    /\ adj = [n \in Nodes |-> <<>>]
    /\ script = "none"
    /\ args = <<>>
    /\ pc = "fn"
    /\ targetHop = Num(0)
    /\ hops = <<>>
    /\ excludePrivate = FALSE
    /\ target = <<>>
    /\ visited = {}
    /\ queue = <<>>
    /\ result = <<>>
    /\ servers = <<>>
    /\ idx = 1
    /\ nodePath = <<>>
    /\ calls = <<>>
    /\ root = [n \in Nodes |-> n = Home]
    /\ portsReq = [n \in Nodes |-> 0]
    /\ openers = {}
    /\ maxRam = [n \in Nodes |-> 8]
    /\ scriptRam = [s \in Payloads |-> 0]
    /\ files = [n \in Nodes |-> <<>>]
    /\ procs = [n \in Nodes |-> <<>>]
    /\ scripts = <<>>
    /\ hackTarget = JsStr(<<>>)
    /\ fileList = <<>>
    /\ fidx = 1
    /\ fn \in PolicyInputs

NextThreads == ApplyTablePolicy \/ ApplyAvailablePolicy

SpecThreads == InitThreads /\ [][NextThreads]_vars

NextTable ==
    \/ SetupLink
    \/ TableStart \/ TableMain \/ TableBfsStep \/ TableSelect \/ TableCopy
    \/ TableGainRootAccess \/ TableReturn

SpecTable == Init /\ [][NextTable]_vars

NextInfo ==
    \/ SetupLink
    \/ InfoStart \/ InfoMain \/ InfoBfsStep \/ InfoBfsReturn
    \/ InfoPathStep \/ InfoPathNotFound \/ InfoPrintStep \/ InfoReturn

SpecInfo == Init /\ [][NextInfo]_vars

SpecDeploy == Init /\ [][NextDeploy]_vars

SpecRemove == Init /\ [][NextRemove]_vars

\* Every script, on every network.
Next == NextDeploy \/ NextRemove \/ NextInfo \/ NextTable

Spec == Init /\ [][Next]_vars

\* The two traversal functions applied to the networks of the setup phase.
ApplyGetAllServers ==
    /\ pc = "setup"
    /\ script' = "getAllServers"
    /\ result' = getAllServers(Home, <<>>)
    /\ pc' = "returned"
    /\ UNCHANGED <<host, fn, work, adj, args, targetHop, hops, excludePrivate, target,
                   visited, queue, servers, idx, nodePath, calls>>

ApplyGetServersUpToLevel ==
    /\ pc = "setup"
    /\ script' = "getServersUpToLevel"
    /\ \E h \in 1..MaxHopArg :
          /\ targetHop' = Num(h)
          /\ result' = getServersUpToLevel(Num(h))
    /\ pc' = "returned"
    /\ UNCHANGED <<host, fn, work, adj, args, hops, excludePrivate, target,
                   visited, queue, servers, idx, nodePath, calls>>

NextWalk == SetupLink \/ ApplyGetAllServers \/ ApplyGetServersUpToLevel

SpecWalk == Init /\ [][NextWalk]_vars

\* deploy, remove and serverinfo on the networks of the setup phase, with the
\* scheduling of the host's script engine: a script past the parsing of its
\* arguments that can take a step eventually takes one.
NextScripts ==
    \/ SetupLink
    \/ DeployStart \/ DeployMain \/ DeployBfsStep \/ DeployBfsReturn
    \/ DeploySelect \/ DeployCopy \/ DeployGainRootAccess \/ DeployReturn
    \/ NextRemove
    \/ NextInfo

ScriptStep ==
    \/ DeployBfsStep \/ DeployBfsReturn
    \/ DeploySelect \/ DeployCopy \/ DeployGainRootAccess \/ DeployReturn
    \/ RemoveBfsStep \/ RemoveBfsReturn
    \/ RemoveLs \/ RemoveFile \/ RemoveNextServer \/ RemoveReturn
    \/ InfoBfsStep \/ InfoBfsReturn
    \/ InfoPathStep \/ InfoPathNotFound \/ InfoPrintStep \/ InfoReturn

SpecScripts == Init /\ [][NextScripts]_vars /\ WF_vars(ScriptStep)

----------------------------------------------------------------------------
(* Claims.                                                                 *)

NoDuplicates(l) == \A i, j \in 1..Len(l) : l[i] = l[j] => i = j

\* The servers whose hop distance from "home" lies in lo..hi.
AtDistance(lo, hi) == {n \in Reachable : Dist(n) >= lo /\ Dist(n) <= hi}

DeployTraversed == script = "deploy" /\ pc = "bfs" /\ queue = <<>>

\* C1: when deploy's getServersUpToLevel(maxHop) returns, its result holds
\* exactly the servers at hop distance 1..maxHop from "home", each once; never
\* "home" and never a server farther than maxHop.
C1_DeployRangeExact ==
    DeployTraversed =>
        /\ Range(result) = AtDistance(1, targetHop.v)
        /\ NoDuplicates(result)
        /\ Home \notin Range(result)

\* A run with a cycle back to "home", a duplicate entry or a server beyond maxHop.
C1_Witness ==
    /\ DeployTraversed
    /\ result # <<>>
    /\ \E n \in Reachable : Dist(n) > targetHop.v
    /\ \E n \in Nodes : Home \in Range(adj[n])

RemoveTraversed == script = "remove" /\ pc = "bfs" /\ queue = <<>>

\* C3: with excludePrivate on, remove's getServersUpToLevel(maxHop) returns
\* every server at hop distance 1..maxHop whose name does not start with
\* "pserv", also one whose only shortest path runs through a private server.
C3_RemoveKeepsServersBehindPrivate ==
    (RemoveTraversed /\ excludePrivate) =>
        Range(result) = {n \in AtDistance(1, targetHop.v) : ~StartsWithPserv(n)}

\* k = floor(a / b), by the inequalities k <= a / b < k + 1.
IsFloorOfQuotient(k, a, b) ==
    IF b > 0 THEN k * b <= a /\ a < (k + 1) * b
    ELSE b < 0 /\ k * b >= a /\ a > (k + 1) * b

\* C8: the table policy returns 1 below 16 GB, 6 at 16 GB and 12 at 32 GB
\* whatever the footprint; for any other capacity floor(capacity / footprint)
\* for a non-zero footprint and 1 with a warning for footprint 0.
C8_TablePolicy ==
    (fn.policy = "table" /\ fn.applied) =>
        /\ fn.maxRam < 16 => fn.threads = 1
        /\ fn.maxRam = 16 => fn.threads = 6
        /\ fn.maxRam = 32 => fn.threads = 12
        /\ (fn.maxRam > 16 /\ fn.maxRam # 32 /\ fn.scriptRam # 0) =>
               IsFloorOfQuotient(fn.threads, fn.maxRam, fn.scriptRam) /\ ~fn.warn
        /\ (fn.maxRam > 16 /\ fn.maxRam # 32 /\ fn.scriptRam = 0) =>
               fn.threads = 1 /\ fn.warn
        /\ (fn.maxRam = 8) => fn.threads = 1
        /\ (fn.maxRam = 64 /\ fn.scriptRam = 8) => fn.threads = 8
        /\ (fn.maxRam = 64 /\ fn.scriptRam = 0) => fn.threads = 1

\* The table policy applied to (64, 0): the fallback with its warning.
C8_Witness ==
    fn.policy = "table" /\ fn.applied /\ fn.maxRam = 64 /\ fn.scriptRam = 0 /\ fn.warn

\* C9: the available-capacity policy returns max(floor((capacity - used) /
\* footprint), 1) for a footprint > 0 and 1 with a warning for a footprint
\* <= 0; it never returns 0.
C9_AvailablePolicy ==
    (fn.policy = "available" /\ fn.applied) =>
        LET avail == fn.maxRam - fn.usedRam
            q == CHOOSE k \in (0 - MaxPolicyRam)..MaxPolicyRam :
                     IsFloorOfQuotient(k, avail, fn.scriptRam)
        IN  /\ fn.scriptRam > 0 => (fn.threads = IF q > 1 THEN q ELSE 1) /\ ~fn.warn
            /\ fn.scriptRam <= 0 => fn.threads = 1 /\ fn.warn
            /\ fn.threads # 0
            /\ (fn.maxRam = 32 /\ fn.usedRam = 16 /\ fn.scriptRam = 8) => fn.threads = 2
            /\ (fn.maxRam = 32 /\ fn.usedRam = 30 /\ fn.scriptRam = 8) => fn.threads = 1

\* The policy applied to (32, 30, 8): the floor is 0 and the result 1.
C9_Witness ==
    /\ fn.policy = "available" /\ fn.applied
    /\ fn.maxRam = 32 /\ fn.usedRam = 30 /\ fn.scriptRam = 8 /\ fn.threads = 1

ExecCalls == {i \in 1..Len(calls) : calls[i].op = "exec"}

\* C10: in the table-policy deploy the computed thread count is a positive
\* integer and no exec is issued with a thread count of zero or less.
C10_TableExecPositive ==
    script = "deployTable" => \A i \in ExecCalls : calls[i].threads > 0

InfoTraversed == script = "serverinfo" /\ pc = "bfs" /\ queue = <<>>

\* C2: when serverinfo's getServersAtHops(hops) returns, its result holds
\* exactly the servers whose hop distance from "home" is one of hops, each
\* once; servers at smaller, unrequested distances are passed through and
\* "home" is never returned.
C2_AtHopsExact ==
    InfoTraversed =>
        /\ Range(result) = {n \in Reachable : Dist(n) \in Range(hops)}
        /\ NoDuplicates(result)
        /\ Home \notin Range(result)

\* Hops 2 and 3 requested, a server at distance 1 passed through.
C2_Witness ==
    /\ InfoTraversed
    /\ 1 \notin Range(hops)
    /\ result # <<>>
    /\ \E n \in Reachable : Dist(n) = 1 /\ n \notin Range(result)

\* serverinfo was given a target and getPathToServer has returned.
PathReturned == script = "serverinfo" /\ target # <<>> /\ pc \in {"info", "done"}

\* C4: for a target reachable from "home" getPathToServer returns a path
\* that starts with "home", ends with the target, steps along adjacency
\* entries, repeats no server and has the target's hop distance plus 1 entries.
C4_PathIsShortest ==
    (PathReturned /\ NameOf(target) \in Reachable) =>
        /\ nodePath # <<>>
        /\ nodePath[1] = Home
        /\ nodePath[Len(nodePath)] = NameOf(target)
        /\ \A i \in 1..(Len(nodePath) - 1) : nodePath[i + 1] \in Range(adj[nodePath[i]])
        /\ NoDuplicates(nodePath)
        /\ Len(nodePath) = Dist(NameOf(target)) + 1

\* A target two hops away: a path of three servers.
C4_Witness ==
    /\ PathReturned
    /\ NameOf(target) \in Reachable
    /\ Dist(NameOf(target)) = 2
    /\ Len(nodePath) = 3

NotFoundPrinted == \E i \in 1..Len(calls) : calls[i] = Tprint("Node Path not found")

\* C5: getPathToServer returns the empty sequence exactly for a target not
\* reachable from "home", and "Node Path not found" is printed exactly then.
C5_EmptyPathIffUnreachable ==
    PathReturned =>
        /\ (nodePath = <<>>) <=> (NameOf(target) \notin Reachable)
        /\ NotFoundPrinted <=> (NameOf(target) \notin Reachable)

\* A server of the network that no path from "home" leads to, after some scans.
C5_Witness ==
    /\ PathReturned
    /\ NameOf(target) \in Nodes \ Reachable
    /\ adj[NameOf(target)] # <<>>
    /\ nodePath = <<>>
    /\ "scan" \in Ops(calls)

\* The first argument is a number <= 0, or no number at all.
IsNumeral(s) ==
    LET t == Trim(s)
    IN  AllDigits(t) \/ (t # <<>> /\ Head(t) = "-" /\ AllDigits(Tail(t)))

FirstArgRejected(a) ==
    /\ Len(a) > 0
    /\ CASE a[1].t = "number"  -> a[1].n <= 0
         [] a[1].t = "boolean" -> TRUE
         [] a[1].t = "string"  -> ~IsNumeral(a[1].s) \/ LeqZero(StringToNumber(a[1].s))

NetworkOps ==
    {"scan", "scp", "brutessh", "ftpcrack", "relaysmtp", "httpworm", "sqlinject",
     "nuke", "kill", "exec", "ls", "rm"}

\* C6: deploy and remove, given a first argument that is non-numeric, zero or
\* negative, print the error and end with no host call that reads or changes
\* the network.
C6_InvalidHopAborts ==
    (script \in {"deploy", "remove"} /\ pc # "main" /\ FirstArgRejected(args)) =>
        /\ pc = "done"
        /\ calls = <<Tprint(ErrInvalidHop)>>
        /\ Ops(calls) \cap NetworkOps = {}

\* The pieces of serverinfo's hops argument.
HopPieces == SplitComma(JsString(args[1]))

PieceRejected(p) == ~IsNumeral(p) \/ LeqZero(StringToNumber(p))

InfoParsed == script = "serverinfo" /\ pc # "main" /\ Len(args) > 0

\* C7 as stated: a hops argument with some entry that is non-numeric, zero
\* or negative ends the invocation with the error, before any traversal or
\* attribute read.
C7_AnyInvalidEntryAborts ==
    (InfoParsed /\ \E i \in 1..Len(HopPieces) : PieceRejected(HopPieces[i])) =>
        /\ pc = "done"
        /\ calls = <<Tprint(ErrInvalidHops)>>

\* C7 amended: the invocation ends with the error, before any traversal or
\* attribute read, exactly when every entry is non-numeric, zero or negative;
\* otherwise the rejected entries are dropped and the run goes on with the
\* positive ones, in their order.
C7_AllInvalidEntriesAbort ==
    InfoParsed =>
        LET valid == SelectSeq(HopPieces, LAMBDA p : ~PieceRejected(p))
        IN  IF valid = <<>>
            THEN pc = "done" /\ calls = <<Tprint(ErrInvalidHops)>>
            ELSE /\ hops = [i \in 1..Len(valid) |-> StringToNumber(valid[i]).v]
                 /\ \A i \in 1..Len(calls) : calls[i] # Tprint(ErrInvalidHops)

\* "0,-1": every entry rejected, the run has ended with the error.
C7_Witness ==
    /\ InfoParsed
    /\ Len(HopPieces) = 2
    /\ \A i \in 1..Len(HopPieces) : PieceRejected(HopPieces[i])
    /\ pc = "done"

\* The calls a step appends.
NewCalls == SubSeq(calls', Len(calls) + 1, Len(calls'))

\* gainRootAccess of the current deploy is about to run for servers[idx].
DeployGaining == script = "deploy" /\ pc = "gain" /\ idx <= Len(servers)

ExecOf(c, file, server) ==
    {i \in 1..Len(c) : c[i].op = "exec" /\ c[i].script = file /\ c[i].server = server}

\* C11: in the current deploy a payload whose footprint exceeds the node's
\* available capacity (capacity - used, once a same-named instance without
\* arguments is stopped) gets no run request on that node.
C11_InsufficientRamNoExec ==
    [][(DeployGaining /\ scripts # <<>>) =>
          LET server == servers[idx]
              file == NameOf(scripts[1])
              available == maxRam[server] - UsedRam(HostKill(procs[server], file, <<>>))
          IN  ScriptRamOf(file) > available => ExecOf(NewCalls, file, server) = {}]_vars

\* C12: in both thread-sizing policies a negative capacity or footprint
\* yields an unusable result, and no run request is issued with it.
C12_NegativeInputNoExec ==
    (fn.policy # "none" /\ fn.applied /\ (fn.maxRam < 0 \/ fn.scriptRam < 0)) => ~fn.run

\* sub lists, in the order of l and each once, the members of l that are in S.
ListsInOrder(sub, l, S) ==
    /\ Range(sub) = Range(l) \cap S
    /\ NoDuplicates(sub)
    /\ \A i, j \in 1..Len(sub) :
          i < j => \E a, b \in 1..Len(l) : a < b /\ l[a] = sub[i] /\ l[b] = sub[j]

\* The filtering of deploy has just run on the traversal output (result): the
\* two subsets are the lists of the second and third last report.
DeployFiltered == script = "deploy" /\ pc = "canNuke"
ReportedManual == calls[Len(calls) - 2].list
ReportedPrivate == calls[Len(calls) - 1].list

FilterExample == <<"home", "n00dles", "pserv-0", "pserv-1">>

\* C13: the reported manual subset is the traversal output's members in the
\* manual list, the reported private subset its "pserv-" members when the
\* toggle is on (empty when off), the candidates are the rest, each in the
\* output's order; and the filter maps the example [home, n00dles, pserv-0,
\* pserv-1] with manual [home] and the toggle on to [n00dles], [home] and
\* [pserv-0, pserv-1].
C13_FilterPipeline ==
    /\ DeployFiltered =>
          LET manual == Range(manualExcludedServers)
              private == IF excludePrivate THEN {n \in Nodes : StartsWithPservDash(n)} ELSE {}
          IN  /\ ListsInOrder(ReportedManual, result, manual)
              /\ ListsInOrder(ReportedPrivate, result, private)
              /\ ListsInOrder(servers, result, Nodes \ (manual \cup private))
              /\ Range(servers) \cup Range(ReportedManual) \cup Range(ReportedPrivate)
                    = Range(result)
              /\ Range(servers) \cap (Range(ReportedManual) \cup Range(ReportedPrivate)) = {}
    /\ candidateServers(FilterExample, <<"home">>, TRUE) = <<"n00dles">>
    /\ manuallyExcluded(FilterExample, <<"home">>) = <<"home">>
    /\ privateExcluded(FilterExample, TRUE) = <<"pserv-0", "pserv-1">>

\* The filter ran with the toggle on over an output holding a private server
\* and another one.
C13_Witness ==
    /\ DeployFiltered /\ excludePrivate
    /\ ReportedPrivate = <<"pserv-0">>
    /\ Len(servers) = 1 /\ Len(result) = 2

\* A server without privilege that requires more open ports than "home" has
\* opener programs.  (Such a server never gains privilege, so this is its
\* state before the run as well.)
LacksCapability(n) == ~root[n] /\ portsReq[n] > Cardinality(openers)

OpenerOps == {"brutessh", "ftpcrack", "relaysmtp", "httpworm", "sqlinject"}

\* The operations of the calls that name the server n as their target.
OpsOn(n) ==
    {calls[i].op : i \in {j \in 1..Len(calls) :
                            calls[j].op \in OpenerOps \cup {"scp", "nuke", "exec"}
                            /\ calls[j].server = n}}

\* C14 as stated: the current deploy issues no copy, opener, nuke or run
\* request for a server that lacks the capability, whatever its name.
C14_ShortfallSkipsEveryName ==
    script = "deploy" => \A n \in Nodes : LacksCapability(n) => OpsOn(n) = {}

\* C14 amended: such a server gets no nuke and no run request, and when its
\* name does not start with "pserv-" no copy and no opener either.
C14_ShortfallSkipsUnlessPrivate ==
    script = "deploy" =>
        \A n \in Nodes :
            LacksCapability(n) =>
                /\ OpsOn(n) \cap {"nuke", "exec"} = {}
                /\ ~StartsWithPservDash(n) => OpsOn(n) = {}

\* A run that skipped a server for its shortfall and deployed to another one.
C14_Witness ==
    /\ script = "deploy" /\ pc = "done"
    /\ \E n, m \in Reachable :
          /\ LacksCapability(n) /\ ~StartsWithPservDash(n)
          /\ \E i \in 1..Len(calls) :
                calls[i] = TprintServer("Skipping server: not enough port openers", n)
          /\ "exec" \in OpsOn(m)

\* C15: in the current deploy, when a process with a payload's file name is
\* running on the server being deployed to, whatever its arguments, a kill
\* request for that payload on that server precedes the run request for it.
C15_KillBeforeExec ==
    [][DeployGaining =>
          LET server == servers[idx]
              new == NewCalls
          IN  \A p \in Range(procs[server]) :
                  \A i \in ExecOf(new, p.filename, server) :
                      \E j \in 1..(i - 1) :
                          /\ new[j].op = "kill"
                          /\ new[j].script = p.filename
                          /\ new[j].server = server]_vars

CallsOf(o) == {i \in 1..Len(calls) : calls[i].op = o}

\* The delete requests for the file f on the server n.
RmOf(f, n) == {i \in CallsOf("rm") : calls[i].script = f /\ calls[i].server = n}

\* The listings (ls) of a remove, and for a listing the files in the target list.
Listed(i) == {f \in Range(calls[i].list) : InList(<<f>>, scripts)}

\* The process listing (ps) at i was taken for the file its preceding report
\* names.
FileOfPs(i) == calls[i - 1].script

\* C16: in the current remove, for every candidate and every file on it that
\* is in the target list, every process of that file running on the candidate
\* gets a kill request carrying its own arguments, and these requests (and the
\* pause) precede the single delete request for that file on that candidate.
C16_KillsByArgsBeforeDelete ==
    script = "remove" =>
        /\ \A i \in CallsOf("ps") :
              LET f == FileOfPs(i)
                  n == calls[i].server
              IN  /\ Cardinality(RmOf(f, n)) = 1
                  /\ \A r \in RmOf(f, n) :
                        /\ r > i
                        /\ \A p \in Range(calls[i].list) :
                              p.filename = f =>
                                 \E k \in (i + 1)..(r - 1) :
                                    /\ calls[k].op = "kill" /\ calls[k].script = f
                                    /\ calls[k].server = n /\ calls[k].args = p.args
                        /\ (\E p \in Range(calls[i].list) : p.filename = f) =>
                              calls[r - 1].op = "sleep"
                        /\ \A k \in CallsOf("kill") \cup CallsOf("sleep") :
                              (k > i /\ calls[k].op = "kill" /\ calls[k].script = f
                               /\ calls[k].server = n) => k < r
        /\ pc = "done" =>
              /\ \A j \in 1..Len(servers) : \E i \in CallsOf("ls") : calls[i].server = servers[j]
              /\ \A i \in CallsOf("ls") :
                    \A f \in Listed(i) :
                        \E q \in CallsOf("ps") :
                            q > i /\ calls[q].server = calls[i].server /\ FileOfPs(q) = f

\* A remove that found the payload running twice with different arguments on
\* a candidate and issued both kill requests.
C16_Witness ==
    /\ script = "remove" /\ pc = "done"
    /\ \E i \in CallsOf("ps") :
          /\ Len(calls[i].list) = 2
          /\ calls[i].list[1].filename = calls[i].list[2].filename
          /\ calls[i + 2].op = "kill" /\ calls[i + 2].args = <<JsStr(<<"n00dles">>)>>
          /\ calls[i + 4].op = "kill" /\ calls[i + 4].args = <<>>
          /\ calls[i + 6].op = "rm"

\* C17: in the current remove every target-list file present on a candidate
\* gets exactly one delete request, also when no process of it is running; a
\* delete that fails is reported and not retried; a file that is not in the
\* target list gets no kill and no delete request.
C17_SingleDelete ==
    script = "remove" =>
        /\ \A i \in CallsOf("kill") \cup CallsOf("rm") : InList(<<calls[i].script>>, scripts)
        /\ \A i \in CallsOf("rm") :
              /\ Cardinality(RmOf(calls[i].script, calls[i].server)) = 1
              /\ calls[i + 1] = TprintScript(IF calls[i].ok THEN "Removed" ELSE "Failed to remove",
                                             calls[i].script, calls[i].server)
        /\ pc = "done" =>
              \A i \in CallsOf("ls") :
                  \A f \in Range(calls[i].list) :
                      Cardinality(RmOf(f, calls[i].server)) = IF f \in Listed(i) THEN 1 ELSE 0

\* A remove that deleted a payload no process was running, had a delete fail,
\* and left a file outside the target list alone.
C17_Witness ==
    /\ script = "remove" /\ pc = "done"
    /\ \E i \in CallsOf("rm") : ~calls[i].ok /\ calls[i - 1].op = "ps" /\ calls[i - 1].list = <<>>
    /\ \E i \in CallsOf("ls") :
          \E f \in Range(calls[i].list) : f \notin Listed(i) /\ RmOf(f, calls[i].server) = {}

\* The servers the current deploy is to process: at hop distance 1..maxHop,
\* not excluded by the private toggle (the manual list is empty).
DeployTargets ==
    {n \in AtDistance(1, targetHop.v) : ~(excludePrivate /\ StartsWithPservDash(n))}

\* C18: when the current deploy ends, every server at hop distance 1..maxHop
\* that is not excluded and requires at most as many ports as there are
\* openers is privileged and has had one run request issued for each payload,
\* however many other servers were skipped.
C18_ShortfallDoesNotStopOthers ==
    (script = "deploy" /\ pc = "done" /\ ~InvalidHop(targetHop)) =>
        \A n \in DeployTargets :
            portsReq[n] <= Cardinality(openers) =>
                /\ root[n]
                /\ \A k \in 1..Len(scripts) :
                      Cardinality(ExecOf(calls, NameOf(scripts[k]), n)) = 1

\* A run over home - A - B at two hops in which one server was skipped for
\* its shortfall and the other one got the payload run.
C18_Witness ==
    /\ script = "deploy" /\ pc = "done"
    /\ Cardinality(DeployTargets) = 2
    /\ \E n \in DeployTargets : Dist(n) = 1 /\ portsReq[n] > Cardinality(openers) /\ ~root[n]
    /\ \E n \in DeployTargets :
          /\ Dist(n) = 2 /\ portsReq[n] = 0 /\ root[n]
          /\ ExecOf(calls, "hack.js", n) # {}
          /\ \E i \in CallsOf("nuke") : calls[i].server = n

\* C19 as stated: every run request of the current deploy forwards the
\* hackTarget of the command line as its only argument, and no argument at all
\* when the command line has none.
C19_ForwardsTargetOrNothing ==
    script = "deploy" =>
        \A i \in ExecCalls : calls[i].args = IF Len(args) > 3 THEN <<args[4]>> ELSE <<>>

\* C19 amended: without a hackTarget the run request forwards one argument,
\* the empty string.
C19_ForwardsTargetOrEmptyString ==
    script = "deploy" =>
        \A i \in ExecCalls :
            calls[i].args = IF Len(args) > 3 THEN <<args[4]>> ELSE <<JsStr(<<>>)>>

\* A deploy without a hackTarget issued a run request.
C19_Witness ==
    /\ script = "deploy" /\ Len(args) = 2
    /\ \E i \in ExecCalls : calls[i].args = <<JsStr(<<>>)>>

\* The servers the current remove is to process: at hop distance 1..maxHop,
\* not excluded by the private toggle (the manual list is empty).
RemoveTargets ==
    {n \in AtDistance(1, targetHop.v) : ~(excludePrivate /\ StartsWithPserv(n))}

AllDeletesSucceeded == \A i \in CallsOf("rm") : calls[i].ok

\* C20: when the current remove ends and every delete request succeeded, no
\* server at hop distance 1..maxHop that is not excluded holds a file of the
\* target list.
C20_NoTargetFileLeft ==
    (script = "remove" /\ pc = "done" /\ ~InvalidHop(targetHop) /\ AllDeletesSucceeded) =>
        \A n \in RemoveTargets : \A f \in Range(files[n]) : ~InList(<<f>>, scripts)

\* A traversal is under way.
Traversing == script \in {"deploy", "remove", "serverinfo"} /\ pc \in {"bfs", "path"}

QueuedNames == [i \in 1..Len(queue) |-> queue[i].server]

\* C21: on every network (cycles, duplicate entries and entries naming "home"
\* included) each traversal enqueues a server at most once - a server is
\* enqueued only while unvisited and is visited from then on - and a script
\* whose traversal has begun reaches its end.
C21_TraversalsTerminate ==
    /\ [](Traversing => NoDuplicates(QueuedNames) /\ Range(QueuedNames) \subseteq visited)
    /\ [][Traversing /\ Traversing' =>
            /\ visited \subseteq visited'
            /\ \A i \in 1..Len(queue') :
                  queue'[i].server \in Range(QueuedNames) \/ queue'[i].server \notin visited]_vars
    /\ Traversing ~> (pc = "done")

\* A script has ended on a network with a cycle through home and a duplicate
\* entry, after visiting the server listed twice.
C21_Witness ==
    /\ pc = "done" /\ script \in {"deploy", "remove", "serverinfo"}
    /\ adj[Home] = <<"n00dles", "n00dles">> /\ adj["n00dles"] = <<Home>>
    /\ "n00dles" \in visited

\* The servers scanned so far, and the largest depth the traversal in hand may
\* report: maxHop, or the largest requested hop.
Scanned == {calls[i].server : i \in CallsOf("scan")}

MaxDepth == IF script = "serverinfo" THEN MaxOf(hops) ELSE targetHop.v

\* A range or exact-hops traversal has begun (and perhaps returned).
HopTraversal ==
    /\ script \in {"deploy", "deployTable", "remove", "serverinfo"}
    /\ target = <<>> /\ visited # {}

\* serverinfo's path search has ended without finding its target.
PathSearchFailed ==
    script = "serverinfo" /\ target # <<>> /\ pc \in {"info", "done"} /\ nodePath = <<>>

\* C22: in the range and exact-hops traversals a scan is issued only for a
\* server dequeued at a depth below the maximum, so every scanned server lies
\* nearer than the maximum and no server farther than the maximum is visited,
\* enqueued or returned; the path search has no such bound: when it fails it
\* has scanned every server reachable from home.
C22_ScanOnlyBelowMaxDepth ==
    /\ [](HopTraversal =>
            /\ \A n \in Scanned : Dist(n) < MaxDepth
            /\ visited \subseteq Within(MaxDepth)
            /\ \A i \in 1..Len(queue) : queue[i].level <= MaxDepth
            /\ Range(result) \subseteq Within(MaxDepth))
    /\ [][(HopTraversal /\ pc = "bfs" /\ queue # <<>> /\ Len(calls') > Len(calls)) =>
            /\ NewCalls = <<Scan(Head(queue).server)>>
            /\ Head(queue).level < MaxDepth]_vars
    /\ [](PathSearchFailed => Scanned = Reachable)

\* A traversal returned on a network with a server beyond the maximum depth,
\* having scanned a server; and a failed path search scanned a server at
\* distance 2 although the hop list asks for distance 1 only.
C22_Witness ==
    \/ /\ HopTraversal /\ pc = "done" /\ script \in {"deploy", "remove", "serverinfo"}
       /\ Scanned # {Home} /\ Reachable \ Within(MaxDepth) # {}
    \/ /\ PathSearchFailed /\ hops = <<1>> /\ \E n \in Scanned : Dist(n) = 2

\* The positions of c holding a call of one of the operations in ops.
At(c, ops) == {i \in 1..Len(c) : c[i].op \in ops}

\* C25: in one call of gainRootAccess of the current deploy every opener and
\* nuke request names the server in hand; a nuke is issued only if the server
\* lacked privilege on entry, after every opener program present on home was
\* applied to it, and with at least as many openers applied as the server
\* requires; a server that had privilege on entry gets no opener and no nuke.
C25_NukeOnlyAfterOpeners ==
    [][DeployGaining =>
          LET server == servers[idx]
              nukes == At(NewCalls, {"nuke"})
              opened == At(NewCalls, OpenerOps)
          IN  /\ \A i \in nukes \cup opened : NewCalls[i].server = server
              /\ root[server] => nukes = {} /\ opened = {}
              /\ \A i \in nukes :
                    /\ ~root[server]
                    /\ \A p \in openers :
                          \E j \in opened : j < i /\ NewCalls[j].op = OpenerOp(p)
                    /\ Cardinality({j \in opened : j < i}) >= portsReq[server]]_vars

\* A server requiring two openers was nuked after openers were applied to it,
\* and another server, privileged from the start, was deployed to.
C25_Witness ==
    /\ script = "deploy" /\ pc = "done"
    /\ \E n \in Nodes : portsReq[n] = 2 /\ {"nuke", "brutessh", "ftpcrack"} \subseteq OpsOn(n)
    /\ \E n \in Nodes \ {Home} : "exec" \in OpsOn(n) /\ "nuke" \notin OpsOn(n)

\* The last privilege check before position i of the call log (0 if none).
LastCheckBefore(i) ==
    LET before == {j \in CallsOf("hasRootAccess") : j < i}
    IN  IF before = {} THEN 0 ELSE CHOOSE j \in before : \A k \in before : k <= j

\* C26: in both deploys every kill and every run request is issued for a
\* server that has privilege then (privilege is never withdrawn), and the
\* last privilege check before it - the one of the same gainRootAccess call -
\* was made for that server and returned true.
C26_RunOnlyWithPrivilege ==
    script \in {"deploy", "deployTable"} =>
        \A i \in CallsOf("exec") \cup CallsOf("kill") :
            /\ root[calls[i].server]
            /\ LastCheckBefore(i) # 0
            /\ calls[LastCheckBefore(i)].server = calls[i].server
            /\ calls[LastCheckBefore(i)].ret

\* The current deploy has passed a server without privilege that lacks the
\* capability, and has issued a run request for another server.
C26_Witness ==
    /\ script = "deploy" /\ pc = "done"
    /\ \E n \in Range(servers) : ~root[n]
    /\ CallsOf("exec") # {}

\* C23: in every state of deploy's traversal a server name occurs at most once
\* in queue and result together (also when it is listed twice or by several
\* servers), and the depth recorded with a queued server is its hop distance
\* from home.
C23_OnceAndAtShortestDepth ==
    (script = "deploy" /\ pc = "bfs") =>
        /\ NoDuplicates(QueuedNames \o result)
        /\ \A i \in 1..Len(queue) : queue[i].level = Dist(queue[i].server)

\* The servers that list n.
Parents(n) == {m \in Nodes : InList(n, adj[m])}

\* The traversal is under way and has already returned a server that several
\* servers list, or that one server lists twice.
C23_Witness ==
    /\ script = "deploy" /\ pc = "bfs" /\ queue # <<>>
    /\ \E n \in Range(result) :
          \/ Cardinality(Parents(n) \cap visited) >= 2
          \/ \E m \in Nodes : Len(SelectSeq(adj[m], LAMBDA x : x = n)) >= 2

\* Discovery order, computed from the adjacency lists level by level: the
\* entries of the previous level's servers, taken server by server and entry by
\* entry, without the servers of earlier levels and without repetitions.
RECURSIVE FirstOccurrences(_, _)
FirstOccurrences(l, seen) ==
    IF l = <<>> THEN <<>>
    ELSE IF Head(l) \in seen THEN FirstOccurrences(Tail(l), seen)
    ELSE <<Head(l)>> \o FirstOccurrences(Tail(l), seen \cup {Head(l)})

RECURSIVE EntriesOf(_)
EntriesOf(l) == IF l = <<>> THEN <<>> ELSE adj[Head(l)] \o EntriesOf(Tail(l))

RECURSIVE LevelOrder(_)
LevelOrder(k) ==
    IF k = 0 THEN <<Home>>
    ELSE FirstOccurrences(EntriesOf(LevelOrder(k - 1)), Within(k - 1))

\* The levels 1..k among those `wanted` selects, one after the other.
RECURSIVE LevelsUpTo(_, _)
LevelsUpTo(k, wanted) ==
    IF k = 0 THEN <<>>
    ELSE LevelsUpTo(k - 1, wanted) \o (IF k \in wanted THEN LevelOrder(k) ELSE <<>>)

IsPrefix(a, b) == Len(a) <= Len(b) /\ SubSeq(b, 1, Len(a)) = a

\* C24: the range and the exact-hops traversal return their servers in
\* discovery order - by non-decreasing hop distance, and within one distance
\* in the order of first enqueueing (the parents' order, then each parent's
\* adjacency-list order) - and build the result by appending only.
C24_DiscoveryOrder ==
    /\ [](DeployTraversed => result = LevelsUpTo(targetHop.v, 1..targetHop.v))
    /\ [](InfoTraversed => result = LevelsUpTo(MaxOf(hops), Range(hops)))
    /\ [][(script \in {"deploy", "serverinfo"} /\ pc = "bfs" /\ pc' = "bfs") =>
            IsPrefix(result, result')]_vars

\* A traversal returned two servers of one distance that a later-listed and an
\* earlier-listed entry name, and one farther server.
C24_Witness ==
    /\ (DeployTraversed \/ InfoTraversed)
    /\ \E i, j, k \in 1..Len(result) :
          /\ i < j /\ j < k
          /\ Dist(result[i]) = Dist(result[j]) /\ Dist(result[j]) < Dist(result[k])

\* remove has left its traversal with the toggle on.
RemoveSelected ==
    /\ script = "remove" /\ pc \in {"removeLoop", "done"}
    /\ ~InvalidHop(targetHop) /\ excludePrivate

\* The servers the current deploy processes on this network for this maxHop
\* with the toggle on: traversal, then the filters.
DeployProcessed(maxHop) ==
    Range(candidateServers(getServersUpToLevel(maxHop), manualExcludedServers, TRUE))

\* The function form of deploy's traversal returns what the loop of the
\* running deploy returns.
DeployLoopIsFunction == DeployTraversed => result = getServersUpToLevel(targetHop)

\* C27: on one network, with one maxHop and the toggle on, remove processes
\* exactly the servers the current deploy processes.
C27_RemoveProcessesDeploySet ==
    RemoveSelected => Range(servers) = DeployProcessed(targetHop)

\* The greatest hop distance of a server reachable from home.
MaxDist == CHOOSE k \in 0..Cardinality(Nodes) : Ring(k) # {} /\ \A j \in (k + 1)..Cardinality(Nodes) : Ring(j) = {}

\* C28: the recursive walk getAllServers returns every server reachable from
\* home exactly once, home included, and without home its result is the set of
\* servers getServersUpToLevel returns for every maxHop that is at least the
\* greatest hop distance of the network.
C28_WalkEqualsTraversal ==
    /\ (script = "getAllServers" /\ pc = "returned") =>
          /\ NoDuplicates(result)
          /\ Range(result) = Reachable
          /\ \A h \in 1..MaxHopArg :
                h >= MaxDist => Range(getServersUpToLevel(Num(h))) = Range(result) \ {Home}
    /\ (script = "getServersUpToLevel" /\ pc = "returned" /\ targetHop.v >= MaxDist) =>
          /\ NoDuplicates(result)
          /\ Range(result) = Range(getAllServers(Home, <<>>)) \ {Home}

\* The walk returned on a network with a cycle through home and a server at
\* distance 2.
C28_Witness ==
    /\ script = "getAllServers" /\ pc = "returned"
    /\ \E n \in Range(result) : Dist(n) = 2
    /\ \E m \in Range(result) \ {Home} : InList(Home, adj[m])
    /\ MaxDist <= MaxHopArg

RemoveEnded == script = "remove" /\ pc = "done" /\ ~InvalidHop(targetHop)

\* The processes of files of the target list that run on the server n.
TargetProcs(n) == {i \in 1..Len(procs[n]) : InList(<<procs[n][i].filename>>, scripts)}

\* The file listing remove obtained for the server n.
ListingOf(n) == UNION {Range(calls[i].list) : i \in {j \in CallsOf("ls") : calls[j].server = n}}

\* C29 as stated: after the current remove no process of a file of the target
\* list runs on a candidate server, whether or not the file was in the
\* server's listing.
C29_NoTargetProcessLeft ==
    RemoveEnded => \A n \in Range(servers) : TargetProcs(n) = {}

\* C29 amended: after the current remove, a process of a file of the target
\* list that still runs on a candidate server is one whose file was not in the
\* listing remove obtained for that server.
C29_NoListedTargetProcessLeft ==
    RemoveEnded =>
        \A n \in Range(servers) :
            \A i \in TargetProcs(n) : procs[n][i].filename \notin ListingOf(n)

\* remove has ended after killing two processes of a listed target file on
\* one candidate while another candidate ran the target without its file.
C29_Witness ==
    /\ RemoveEnded
    /\ \E n \in Range(servers) :
          Cardinality({i \in CallsOf("kill") : calls[i].server = n}) = 2 /\ TargetProcs(n) = {}
    /\ \E n \in Range(servers) : TargetProcs(n) # {}

\* serverinfo was given a target server.
TargetMode == script = "serverinfo" /\ target # <<>>

\* The positions of the path report in the call log.
PathReports ==
    {i \in CallsOf("tprint") : calls[i].msg \in {"Node Path", "Node Path not found"}}

====
